---- MODULE Spec2Model ----
(***************************************************************************)
(* Model of the CICLOPS financial-document backend (devscali/lciclops).    *)
(*                                                                         *)
(*   - src/app/main_postgres.py: upload_file, confirm_upload,              *)
(*     extract_financial_data_to_summaries, sync_financial_summaries,      *)
(*     delete_document, get_dashboard_charts_data                          *)
(*   - src/app/db_models.py, src/app/database.py: the tables and the       *)
(*     session (autoflush=False)                                           *)
(*   - src/Ciclops/.../routers/documents.py: the Firebase document router  *)
(*                                                                         *)
(* Python strings are sequences of one-character strings, so that `in`,    *)
(* upper(), strip(), replace() and re.search are computed, not assumed.    *)
(* Money amounts are integers and ratios exact fractions.                   *)
(***************************************************************************)
EXTENDS Integers, Sequences, FiniteSets, TLC

VARIABLES
    documents,      \* table documents: id -> [filename, file_type, status]
    raw_data,       \* table raw_document_data: document_id -> raw_json["data"] (or NoRawJson)
    summaries,      \* table monthly_summaries, a sequence of rows in physical order
    next_doc_id,    \* the documents.id sequence
    last_op,        \* history: the last handler that ran, with what the claims need of it
    sheet_in,       \* SpecExtract: the data of the document under extraction
    extract_out,    \* SpecExtract: what extract_financial_data_to_summaries computed and wrote
    fb_docs,        \* Firestore collection "documents": id -> [franchise_id, status]
    fb_last,        \* history: the last Firebase handler step that ran
    fb_issued,      \* the document ids uuid4 has handed out
    chart_rows,     \* SpecCharts: the monthly_summaries rows the dashboard reads
    dash,           \* SpecCharts: the response of get_dashboard_charts_data
    up,             \* SpecUpload: the last POST /upload, its request and its response
    txn,            \* SpecConcurrent: each request's position and its session's pending writes
    observed,       \* SpecConcurrent: the rows the queries of a dashboard request returned
    ai_call,        \* SpecAi: the AI configuration of the process and the last call of the helper
    limiter         \* SpecLimiter: the requests a RateLimiter holds and the calls made

vars == <<documents, raw_data, summaries, next_doc_id, last_op,
          sheet_in, extract_out, fb_docs, fb_last, fb_issued, chart_rows, dash, up, txn, observed, ai_call, limiter>>

-----------------------------------------------------------------------------
(* Python str operations *)

lower_letters == <<"a","b","c","d","e","f","g","h","i","j","k","l","m",
                   "n","o","p","q","r","s","t","u","v","w","x","y","z">>
upper_letters == <<"A","B","C","D","E","F","G","H","I","J","K","L","M",
                   "N","O","P","Q","R","S","T","U","V","W","X","Y","Z">>
digits == <<"0","1","2","3","4","5","6","7","8","9">>

IsIn(c, seq) == \E i \in 1..Len(seq) : seq[i] = c
IndexIn(c, seq) == CHOOSE i \in 1..Len(seq) : seq[i] = c

\* str.upper() / str.lower(), one character
upper_of == [c \in {lower_letters[i] : i \in 1..26} |-> upper_letters[IndexIn(c, lower_letters)]]
lower_of == [c \in {upper_letters[i] : i \in 1..26} |-> lower_letters[IndexIn(c, upper_letters)]]
upper_char(c) == IF c \in DOMAIN upper_of THEN upper_of[c] ELSE c
lower_char(c) == IF c \in DOMAIN lower_of THEN lower_of[c] ELSE c

str_upper(s) == [i \in 1..Len(s) |-> upper_char(s[i])]
str_lower(s) == [i \in 1..Len(s) |-> lower_char(s[i])]

\* Python `sub in s`
Contains(sub, s) ==
    \E i \in 0..(Len(s) - Len(sub)) : \A j \in 1..Len(sub) : s[i + j] = sub[j]

\* the element of a singleton; {f(x) : x \in {e}} computes e once, however
\* often f uses x
Only(S) == CHOOSE x \in S : TRUE

SetMin(S) == CHOOSE x \in S : \A y \in S : x <= y
SetMax(S) == CHOOSE x \in S : \A y \in S : x >= y

\* str.strip()
str_strip(s) ==
    LET keep == {i \in 1..Len(s) : s[i] # " "}
    IN  IF keep = {} THEN <<>> ELSE SubSeq(s, SetMin(keep), SetMax(keep))

\* str.replace(" ", "_")
str_replace_space(s) == [i \in 1..Len(s) |-> IF s[i] = " " THEN "_" ELSE s[i]]

\* re.search(r'P(\d+)', s).group(1), or <<>> when there is no match
re_search_P_digits(s) ==
    LET starts == {i \in 1..(Len(s) - 1) : s[i] = "P" /\ IsIn(s[i + 1], digits)}
    IN  IF starts = {} THEN <<>>
        ELSE LET b == SetMin(starts) + 1
                 e == SetMax({k \in b..Len(s) : \A m \in b..k : IsIn(s[m], digits)})
             IN  SubSeq(s, b, e)

-----------------------------------------------------------------------------
(* JSON cells of raw_json["data"]: null, a number, or a string *)

None == [t |-> "none", v |-> 0, s |-> <<>>]
Num(n) == [t |-> "num", v |-> n, s |-> <<>>]
Str(x) == [t |-> "str", v |-> 0, s |-> x]

\* raw.raw_json of a document that has none (a PDF: only raw_text is stored)
NoRawJson == [columns |-> <<>>, rows |-> <<>>]

\* `val and isinstance(val, str)`
is_nonempty_str(c) == c.t = "str" /\ c.s # <<>>
\* `val is None or not isinstance(val, (int, float))` negated
is_number(c) == c.t = "num"

\* a key of a row that is neither an Unnamed placeholder nor the sheet tag
key_is_data(key) ==
    /\ ~Contains(<<"U","n","n","a","m","e","d">>, key)
    /\ ~Contains(<<"_","h","o","j","a">>, key)

-----------------------------------------------------------------------------
(* extract_financial_data_to_summaries: the Store/Period Extractor *)

\* f"2025-P{period_num}" with period_num the digits after the first "P<digit>" of the
\* file name as stored (no upper()), or "00"
period_label(filename) ==
    LET g == re_search_P_digits(filename)
    IN  <<"2","0","2","5","-","P">> \o (IF g = <<>> THEN <<"0","0">> ELSE g)

\* excluded_names without "TOTAL"
excluded_names_without_total ==
    << <<"E","D","O"," ","R","E","S">>,
       <<"E","D","O"," ","R","E","S","U","L">>,
       <<"C","O","M","E","N","T","A","R","I","O","S">>,
       <<"F","L","E","T","E","S">>,
       <<"P","U","B","L","I","C","I","D","A","D">>,
       <<"C","O","L","A","B","O","R","A","D","O","R","E","S">> >>

excluded_names ==
    << <<"E","D","O"," ","R","E","S">>,
       <<"E","D","O"," ","R","E","S","U","L">>,
       <<"T","O","T","A","L">>,
       <<"C","O","M","E","N","T","A","R","I","O","S">>,
       <<"F","L","E","T","E","S">>,
       <<"P","U","B","L","I","C","I","D","A","D">>,
       <<"C","O","L","A","B","O","R","A","D","O","R","E","S">> >>

\* the set S of naturals as an ascending sequence
RECURSIVE Ascending(_)
Ascending(S) == IF S = {} THEN <<>> ELSE <<SetMin(S)>> \o Ascending(S \ {SetMin(S)})

\* whether header cell i of the first row names a store
is_store_column(columns, header_row, i) ==
    /\ is_nonempty_str(header_row[i])
    /\ header_row[i].s # <<"%">>
    /\ key_is_data(columns[i])
    /\ LET store_name == str_upper(str_strip(header_row[i].s))
       IN  /\ Len(store_name) > 1
           /\ ~\E e \in 1..Len(excluded_names) : Contains(excluded_names[e], store_name)

\* store_columns: {col_key: store_name}, in the order of the header row's keys
store_columns(columns, header_row) ==
    LET idx == Ascending({i \in 1..Len(columns) : is_store_column(columns, header_row, i)})
    IN  [k \in 1..Len(idx) |->
            [col_key |-> columns[idx[k]],
             store_name |-> str_upper(str_strip(header_row[idx[k]].s))]]

new_store_info(sc) ==
    [store_id |-> str_lower(str_replace_space(sc.store_name)),
     store_name |-> sc.store_name,
     total_sales |-> 0, cost_of_sales |-> 0, operating_expenses |-> 0,
     labor_cost |-> 0, rent |-> 0, utilities |-> 0, net_profit |-> 0,
     col_key |-> sc.col_key]

\* stores_data: a dict keyed by store_name; a repeated name overwrites the entry
\* and keeps its place
stores_data(cols) ==
    LET sd[k \in 0..Len(cols)] ==
            IF k = 0 THEN <<>>
            ELSE LET prev == sd[k - 1]
                     info == new_store_info(cols[k])
                     same == {j \in 1..Len(prev) : prev[j].store_name = info.store_name}
                 IN  IF same = {} THEN Append(prev, info)
                     ELSE [prev EXCEPT ![CHOOSE j \in same : TRUE] = info]
    IN  sd[Len(cols)]

\* the concept of a row: the first non-empty string under a key that holds "P"
\* and is no Unnamed/_hoja key, upper-cased and stripped; <<>> when there is none
first_col_val(columns, row) ==
    LET hits == {i \in 1..Len(columns) :
                    /\ is_nonempty_str(row[i])
                    /\ key_is_data(columns[i])
                    /\ Contains(<<"P">>, columns[i])}
    IN  IF hits = {} THEN <<>> ELSE str_strip(str_upper(row[SetMin(hits)].s))

\* the conditions of the if/elif chain one by one, in the order of the source
rule_holds(n, concept) ==
    CASE n = 1 -> \/ concept = <<"I","N","G","R","E","S","O","S">>
                  \/ concept = <<"V","E","N","T","A","S">>
                  \/ Contains(<<"V","E","N","T","A"," ","N","E","T","A">>, concept)
      [] n = 2 -> \/ concept = <<"C","O","S","T","O"," ","D","E"," ","V","E","N","T","A">>
                  \/ concept = <<"C","O","S","T","O"," ","D","E"," ","V","E","N","T","A","S">>
      [] n = 3 -> \/ concept = <<"T","O","T","A","L"," ","E","G","R","E","S","O","S">>
                  \/ concept = <<"E","G","R","E","S","O","S"," ","T","O","T","A","L","E","S">>
      [] n = 4 -> \/ Contains(<<"N","O","M","I","N","A">>, concept)
                  \/ Contains(<<"S","A","L","A","R","I","O">>, concept)
                  \/ Contains(<<"S","U","E","L","D","O">>, concept)
      [] n = 5 -> Contains(<<"R","E","N","T","A">>, concept) /\ Contains(<<"L","O","C","A","L">>, concept)
      [] n = 6 -> concept = <<"R","E","N","T","A">>
      [] n = 7 -> \/ Contains(<<"C","F","E">>, concept)
                  \/ Contains(<<"L","U","Z">>, concept)
                  \/ Contains(<<"E","L","E","C","T","R","I","C","I","D","A","D">>, concept)
                  \/ Contains(<<"A","G","U","A">>, concept)
                  \/ Contains(<<"G","A","S">>, concept)
      [] n = 8 -> \/ Contains(<<"U","T","I","L","I","D","A","D"," ","N","E","T","A">>, concept)
                  \/ concept = <<"U","T","I","L","I","D","A","D">>

\* the field each rule writes
rule_field ==
    <<"total_sales", "cost_of_sales", "operating_expenses", "labor_cost", "rent", "rent",
      "utilities", "net_profit">>

\* first_rule with the chain read from its last rule to its first
first_rule_reversed(concept) ==
    LET holding == {n \in DOMAIN rule_field : rule_holds(n, concept)}
    IN  IF holding = {} THEN "none" ELSE rule_field[SetMax(holding)]

\* the if/elif chain that classifies a concept, first matching rule first: the
\* name of the field it writes, "none" when no rule matches
first_rule(concept) ==
    IF \/ concept = <<"I","N","G","R","E","S","O","S">>
       \/ concept = <<"V","E","N","T","A","S">>
       \/ Contains(<<"V","E","N","T","A"," ","N","E","T","A">>, concept)
    THEN "total_sales"
    ELSE IF \/ concept = <<"C","O","S","T","O"," ","D","E"," ","V","E","N","T","A">>
            \/ concept = <<"C","O","S","T","O"," ","D","E"," ","V","E","N","T","A","S">>
    THEN "cost_of_sales"
    ELSE IF \/ concept = <<"T","O","T","A","L"," ","E","G","R","E","S","O","S">>
            \/ concept = <<"E","G","R","E","S","O","S"," ","T","O","T","A","L","E","S">>
    THEN "operating_expenses"
    ELSE IF \/ Contains(<<"N","O","M","I","N","A">>, concept)
            \/ Contains(<<"S","A","L","A","R","I","O">>, concept)
            \/ Contains(<<"S","U","E","L","D","O">>, concept)
    THEN "labor_cost"
    ELSE IF Contains(<<"R","E","N","T","A">>, concept) /\ Contains(<<"L","O","C","A","L">>, concept)
    THEN "rent"
    ELSE IF concept = <<"R","E","N","T","A">>
    THEN "rent"
    ELSE IF \/ Contains(<<"C","F","E">>, concept)
            \/ Contains(<<"L","U","Z">>, concept)
            \/ Contains(<<"E","L","E","C","T","R","I","C","I","D","A","D">>, concept)
            \/ Contains(<<"A","G","U","A">>, concept)
            \/ Contains(<<"G","A","S">>, concept)
    THEN "utilities"
    ELSE IF \/ Contains(<<"U","T","I","L","I","D","A","D"," ","N","E","T","A">>, concept)
            \/ concept = <<"U","T","I","L","I","D","A","D">>
    THEN "net_profit"
    ELSE "none"

\* classify with `store_info["labor_cost"] = val` and `store_info["utilities"] = val`
\* in place of `+=`
classify_overwrite(store_info, concept, val) ==
    LET f == first_rule(concept)
    IN  IF f = "none" THEN store_info ELSE [store_info EXCEPT ![f] = val]

\* the if/elif chain applied to one store's value: the first matching rule
\* wins; labor_cost and utilities are `+=`, the other fields `=`
classify(store_info, concept, val) ==
    LET f == first_rule(concept)
    IN  IF f = "none" THEN store_info
        ELSE IF f \in {"labor_cost", "utilities"} THEN [store_info EXCEPT ![f] = @ + val]
        ELSE [store_info EXCEPT ![f] = val]

\* row.get(col_key)
row_get(columns, row, col_key) ==
    IF IsIn(col_key, columns) THEN row[IndexIn(col_key, columns)] ELSE None

\* one pass of `for row in data[1:]` over every store
process_row(columns, row, stores) ==
    LET concept == first_col_val(columns, row)
    IN  IF concept = <<>> THEN stores
        ELSE IF Contains(<<"E","D","O"," ","R","E","S">>, concept) THEN stores
        ELSE [k \in 1..Len(stores) |->
                 LET val == row_get(columns, row, stores[k].col_key)
                 IN  IF is_number(val) THEN classify(stores[k], concept, val.v)
                     ELSE stores[k]]

\* the StoreExtraction of every store of a sheet (data = [columns, rows])
extract_stores(data) ==
    LET acc[r \in 1..Len(data.rows)] ==
            IF r = 1 THEN stores_data(store_columns(data.columns, data.rows[1]))
            ELSE process_row(data.columns, data.rows[r], acc[r - 1])
    IN  acc[Len(data.rows)]

-----------------------------------------------------------------------------
(* extract_financial_data_to_summaries: the Summary Reconciler *)

Abs(n) == IF n < 0 THEN -n ELSE n

RECURSIVE GCD(_, _)
GCD(a, b) == IF b = 0 THEN a ELSE GCD(b, a % b)

\* the float n / d as an exact fraction in lowest terms (d > 0)
Ratio(n, d) ==
    LET g == GCD(Abs(n), d)
    IN  [num |-> n \div g, den |-> d \div g]

Zero == [num |-> 0, den |-> 1]

\* a nullable Float column that nothing has set
Null == [isnull |-> TRUE, v |-> 0]

\* (x / total_sales * 100) if total_sales > 0 else 0
margin_of(x, total_sales) == IF total_sales > 0 THEN Ratio(x * 100, total_sales) ELSE Zero

gross_profit_of(store_info) == store_info.total_sales - store_info.cost_of_sales

\* update_summary that also clears the two comparison columns
update_summary_clears_comparison(existing, store_info, doc_id) ==
    [existing EXCEPT
        !.total_sales = store_info.total_sales,
        !.cost_of_sales = store_info.cost_of_sales,
        !.gross_profit = gross_profit_of(store_info),
        !.gross_margin = margin_of(gross_profit_of(store_info), store_info.total_sales),
        !.operating_expenses = store_info.operating_expenses,
        !.labor_cost = store_info.labor_cost,
        !.rent = store_info.rent,
        !.utilities = store_info.utilities,
        !.net_profit = store_info.net_profit,
        !.net_margin = margin_of(store_info.net_profit, store_info.total_sales),
        !.sales_vs_previous = Null,
        !.profit_vs_previous = Null,
        !.document_id = doc_id]

\* update_summary with `existing.gross_profit = gross_profit` and
\* `existing.gross_margin = gross_margin` left out
update_summary_stale_profit(existing, store_info, doc_id) ==
    [existing EXCEPT
        !.total_sales = store_info.total_sales,
        !.cost_of_sales = store_info.cost_of_sales,
        !.operating_expenses = store_info.operating_expenses,
        !.labor_cost = store_info.labor_cost,
        !.rent = store_info.rent,
        !.utilities = store_info.utilities,
        !.net_profit = store_info.net_profit,
        !.net_margin = margin_of(store_info.net_profit, store_info.total_sales),
        !.document_id = doc_id]

\* the `existing` branch: the assignments to the row found
update_summary(existing, store_info, doc_id) ==
    [existing EXCEPT
        !.total_sales = store_info.total_sales,
        !.cost_of_sales = store_info.cost_of_sales,
        !.gross_profit = gross_profit_of(store_info),
        !.gross_margin = margin_of(gross_profit_of(store_info), store_info.total_sales),
        !.operating_expenses = store_info.operating_expenses,
        !.labor_cost = store_info.labor_cost,
        !.rent = store_info.rent,
        !.utilities = store_info.utilities,
        !.net_profit = store_info.net_profit,
        !.net_margin = margin_of(store_info.net_profit, store_info.total_sales),
        !.document_id = doc_id]

\* the else branch: models.MonthlySummary(...)
new_summary(store_info, period, doc_id) ==
    [store_id |-> store_info.store_id,
     store_name |-> store_info.store_name,
     period |-> period,
     total_sales |-> store_info.total_sales,
     cost_of_sales |-> store_info.cost_of_sales,
     gross_profit |-> gross_profit_of(store_info),
     gross_margin |-> margin_of(gross_profit_of(store_info), store_info.total_sales),
     operating_expenses |-> store_info.operating_expenses,
     labor_cost |-> store_info.labor_cost,
     rent |-> store_info.rent,
     utilities |-> store_info.utilities,
     net_profit |-> store_info.net_profit,
     net_margin |-> margin_of(store_info.net_profit, store_info.total_sales),
     sales_vs_previous |-> Null,
     profit_vs_previous |-> Null,
     document_id |-> doc_id]

\* The orders in which the database may hand back the rows of a query that has no
\* ORDER BY (.first(), .all()): SQL leaves it open; the model offers two of them.
ScanOrders == {"asc", "desc"}

\* db.query(MonthlySummary).filter(store_id == .., period == ..).first() against
\* the rows the database holds: the session is built with autoflush=False, so the
\* rows added by db.add() earlier in this call are not seen. 0 when there is none.
query_existing(table, store_id, period, scan) ==
    LET hits == {i \in 1..Len(table) : table[i].store_id = store_id /\ table[i].period = period}
    IN  IF hits = {} THEN 0
        ELSE IF scan = "asc" THEN SetMin(hits) ELSE SetMax(hits)

\* `for store_name, store_info in stores_data.items()` and the commit: the table
\* after the call, with the counts the call returns
save_summaries(table, stores, period, doc_id, scan) ==
    LET st[k \in 0..Len(stores)] ==
            IF k = 0 THEN [rows |-> table, added |-> <<>>, updated |-> 0]
            ELSE LET prev == st[k - 1]
                     existing == query_existing(table, stores[k].store_id, period, scan)
                 IN  IF existing # 0
                     THEN [prev EXCEPT
                              !.rows[existing] = update_summary(@, stores[k], doc_id),
                              !.updated = @ + 1]
                     ELSE [prev EXCEPT
                              !.added = Append(@, new_summary(stores[k], period, doc_id))]
         fin == st[Len(stores)]
    IN  [table |-> fin.rows \o fin.added,
         records_created |-> Len(fin.added),
         records_updated |-> fin.updated,
         stores_processed |-> Len(stores)]

\* extract_financial_data_to_summaries(doc_id, db) for a document that exists:
\* the table it leaves and its return value
extract_financial_data_to_summaries(table, doc_id, filename, data, scan) ==
    IF data = NoRawJson \/ data.rows = <<>>
    THEN [table |-> table, success |-> FALSE,
          records_created |-> 0, records_updated |-> 0, stores_processed |-> 0]
    ELSE LET r == save_summaries(table, extract_stores(data), period_label(filename),
                                 doc_id, scan)
         IN  [table |-> r.table, success |-> TRUE,
              records_created |-> r.records_created,
              records_updated |-> r.records_updated,
              stores_processed |-> r.stores_processed]

-----------------------------------------------------------------------------
(* The uploads the model offers: file names and parsed sheets *)

\* a statement of period 11
fn_statement_P11 == <<"E","S","T","A","D","O"," ","D","E"," ","R","E","S","U","L","T","A","D","O","S"," ","P","1","1",".","x","l","s","x">>
\* a statement of period 12
fn_statement_P12 == <<"E","S","T","A","D","O"," ","D","E"," ","R","E","S","U","L","T","A","D","O","S"," ","P","1","2",".","x","l","s","x">>
\* a statement of period 11 whose name is in lower case, as CSV
fn_statement_lower == <<"e","s","t","a","d","o"," ","d","e"," ","r","e","s","u","l","t","a","d","o","s"," ","P","1","1",".","c","s","v">>
\* a spreadsheet that is no statement
fn_other == <<"V","E","N","T","A","S"," ","P","1","1",".","x","l","s","x">>
\* a statement uploaded as PDF
fn_statement_pdf == <<"E","S","T","A","D","O"," ","D","E"," ","R","E","S","U","L","T","A","D","O","S"," ","P","1","1",".","p","d","f">>

\* two stores, sales and cost of sales
sheet_two_stores ==
    [columns |-> << <<"P","1","1">>, <<"T","1">>, <<"T","2">> >>,
     rows |-> <<
        << None, Str(<<"T","i","e","n","d","a"," ","C","e","n","t","r","o">>), Str(<<"T","i","e","n","d","a"," ","N","o","r","t","e">>) >>,
        << Str(<<"I","N","G","R","E","S","O","S">>), Num(10000), Num(8000) >>,
        << Str(<<"C","O","S","T","O"," ","D","E"," ","V","E","N","T","A">>), Num(3000), Num(2000) >> >>]

\* two columns whose names differ ("TIENDA CENTRO", "TIENDA_CENTRO") and whose store_id is the same
sheet_same_id ==
    [columns |-> << <<"P","1","1">>, <<"T","1">>, <<"T","2">> >>,
     rows |-> <<
        << None, Str(<<"T","I","E","N","D","A"," ","C","E","N","T","R","O">>), Str(<<"T","i","e","n","d","a","_","C","e","n","t","r","o">>) >>,
        << Str(<<"I","N","G","R","E","S","O","S">>), Num(5000), Num(6000) >>,
        << Str(<<"N","O","M","I","N","A">>), Num(700), Num(900) >> >>]

\* one store with no sales and a loss, next to a TOTAL column
sheet_revised ==
    [columns |-> << <<"P","1","1">>, <<"T","1">>, <<"T","2">> >>,
     rows |-> <<
        << None, Str(<<"T","i","e","n","d","a"," ","C","e","n","t","r","o">>), Str(<<"T","O","T","A","L">>) >>,
        << Str(<<"I","N","G","R","E","S","O","S">>), Num(0), Num(9000) >>,
        << Str(<<"C","O","S","T","O"," ","D","E"," ","V","E","N","T","A">>), Num(500), Num(2000) >>,
        << Str(<<"U","T","I","L","I","D","A","D"," ","N","E","T","A">>), Num(-500), Num(100) >> >>]

\* the files a behaviour may upload: a name and the sheet the file holds
Uploads ==
    { [filename |-> fn_statement_P11, df |-> sheet_two_stores],
      [filename |-> fn_statement_lower, df |-> sheet_revised],
      [filename |-> fn_statement_P12, df |-> sheet_same_id],
      [filename |-> fn_other, df |-> sheet_two_stores],
      [filename |-> fn_statement_pdf, df |-> NoRawJson] }

-----------------------------------------------------------------------------
(* The PostgreSQL backend: upload, confirm, sync, delete *)

\* the most uploads one behaviour makes (documents.id is never reused)
MaxDocs == 2

\* str.endswith
EndsWith(s, suffix) ==
    \E t \in {s} :
        /\ Len(t) >= Len(suffix)
        /\ SubSeq(t, Len(t) - Len(suffix) + 1, Len(t)) = suffix

ext_pdf == <<".","p","d","f">>
ext_csv == <<".","c","s","v">>
allowed_extensions ==
    { <<".","x","l","s","x">>, <<".","x","l","s">>, ext_csv, ext_pdf }

hoja_origen == <<"_","h","o","j","a","_","o","r","i","g","e","n">>

\* df['_hoja_origen'] = sheet_name: the column upload_file adds to an Excel sheet
tag_sheet(df, sheet_name) ==
    [columns |-> Append(df.columns, hoja_origen),
     rows |-> [r \in 1..Len(df.rows) |-> Append(df.rows[r], Str(sheet_name))]]

\* the name of the only sheet of the workbooks Spec uploads
sheet_name_1 == <<"H","o","j","a","1">>

\* the name sheets_info gives the content of a CSV file
csv_sheet_name == <<"D","a","t","o","s">>

\* `df.columns = [str(col).strip() for col in df.columns]` and
\* `df = df.dropna(how='all')`: the rows that hold a value, in order
clean_sheet(df) ==
    LET keep == Ascending({r \in 1..Len(df.rows) :
                              \E c \in 1..Len(df.rows[r]) : df.rows[r][c] # None})
    IN  [columns |-> [c \in 1..Len(df.columns) |-> str_strip(df.columns[c])],
         rows |-> [k \in 1..Len(keep) |-> df.rows[keep[k]]]]

\* df_empty that looks at the columns only
df_empty_columns_only(df) == Len(df.columns) = 0

\* DataFrame.empty: an axis of length 0
df_empty(df) == Len(df.columns) = 0 \/ Len(df.rows) = 0

\* all_dfs of a workbook whose cleaned frames are cl: one tagged frame per sheet
\* that is not empty, with the name sheets_info keeps for it
tagged_dfs(sheets, cl) ==
    LET kept == Ascending({k \in 1..Len(sheets) : ~df_empty(cl[k]) /\ Len(cl[k].columns) > 0})
    IN  [i \in 1..Len(kept) |->
           [name |-> sheets[kept[i]].name, df |-> tag_sheet(cl[kept[i]], sheets[kept[i]].name)]]

\* all_dfs: a CSV file is one frame without the tag, a workbook its tagged frames
all_dfs(filename, sheets) ==
    IF EndsWith(str_lower(filename), ext_csv)
    THEN Only({IF ~df_empty(df) THEN << [name |-> csv_sheet_name, df |-> df] >> ELSE <<>> :
                  df \in {clean_sheet(sheets[1].df)}})
    ELSE Only({tagged_dfs(sheets, cl) :
                  cl \in {[k \in 1..Len(sheets) |-> clean_sheet(sheets[k].df)]}})

RECURSIVE union_columns(_, _)
\* the columns of pd.concat(..., sort=False): in the order of first appearance
union_columns(dfs, k) ==
    IF k = 0 THEN <<>>
    ELSE LET prev == union_columns(dfs, k - 1)
         IN  prev \o SelectSeq(dfs[k].df.columns, LAMBDA c : ~IsIn(c, prev))

\* the rows of a frame under the columns of the combined frame, NaN (cleaned to
\* None by clean_nan_values) where the frame has no such column
reindex(df, cols) ==
    [r \in 1..Len(df.rows) |-> [c \in 1..Len(cols) |-> row_get(df.columns, df.rows[r], cols[c])]]

RECURSIVE concat_rows(_, _, _)
concat_rows(dfs, cols, k) ==
    IF k = 0 THEN <<>> ELSE concat_rows(dfs, cols, k - 1) \o reindex(dfs[k].df, cols)

\* pd.concat(all_dfs, ignore_index=True, sort=False), then to_dict(orient='records')
\* and clean_nan_values
pd_concat(dfs) ==
    Only({[columns |-> cols, rows |-> concat_rows(dfs, cols, Len(dfs))] :
             cols \in {union_columns(dfs, Len(dfs))}})

\* raw_json["data"] as upload_file stores it for a spreadsheet
uploaded_data(filename, sheets) == pd_concat(all_dfs(filename, sheets))

\* sheets_info
sheets_combined(dfs) ==
    [k \in 1..Len(dfs) |-> [name |-> dfs[k].name, rows |-> Len(dfs[k].df.rows)]]

-----------------------------------------------------------------------------
(* analyze_fields_with_ai: the field classifier *)

\* What a call of the classifier can come to: there is no client (no API key),
\* the API call raises, the answer is no JSON, or the answer is JSON: the
\* object asked for, an object without detected_fields, or a list.
AiOutcomes == {"no_client", "api_error", "not_json", "dict", "dict_without_fields", "list"}

\* the value under "detected_fields": an object (map), a list (names) or nothing
Fields(shape, names, map) == [shape |-> shape, names |-> names, map |-> map]

\* {col: {"mapped_to": col, "type": "text"} for col in columns}
identity_fields(columns) ==
    Fields("dict", <<>>,
           [col \in {columns[i] : i \in 1..Len(columns)} |-> [mapped_to |-> col, type |-> "text"]])

\* an answer of the classifier in the shape asked for
classified_fields(columns) ==
    Fields("dict", <<>>,
           [col \in {columns[i] : i \in 1..Len(columns)} |->
               [mapped_to |-> str_lower(col), type |-> "currency"]])

\* ai_analysis: the JSON value (json = "dict" for an object) and what the model
\* keeps of its entries
Analysis(json, data_type, detected_fields) ==
    [json |-> json, data_type |-> data_type, detected_fields |-> detected_fields]

NoFields == Fields("absent", <<>>, [x \in {} |-> 0])

\* analyze_fields_with_ai(data, columns, filename)
analyze_fields_with_ai(columns, ai) ==
    IF ai = "no_client"
    THEN Analysis("dict", "unknown", Fields("list", columns, [x \in {} |-> 0]))
    ELSE IF ai \in {"api_error", "not_json"}
    THEN Analysis("dict", "unknown", identity_fields(columns))
    ELSE IF ai = "dict"
    THEN Analysis("dict", "estado_resultados", classified_fields(columns))
    ELSE IF ai = "dict_without_fields"
    THEN Analysis("dict", "otro", NoFields)
    ELSE Analysis("list", "none", NoFields)

\* the `if skip_ai: ... else: ...` of upload_file
ai_analysis_of(columns, skip_ai, ai) ==
    IF skip_ai THEN Analysis("dict", "imported", identity_fields(columns))
    ELSE analyze_fields_with_ai(columns, ai)

-----------------------------------------------------------------------------
(* POST /upload *)

file_type_of(filename) ==
    IF EndsWith(str_lower(filename), ext_pdf) THEN "pdf"
    ELSE IF EndsWith(str_lower(filename), ext_csv) THEN "csv" ELSE "excel"

\* models.Document(..., status="pending_confirmation")
new_document(filename) ==
    [filename |-> filename, file_type |-> file_type_of(filename),
     status |-> "pending_confirmation", period |-> <<>>]

\* What the history keeps of the handler that ran last: its name, the statuses
\* of the documents it ran the extraction for, and for a sync with clean=true
\* the scan order it met and the table it started from.
NoOp == [op |-> "none", extracted |-> {}, clean_scan |-> "no", before |-> <<>>,
         prev_clean_scan |-> "no"]

Op(name, extracted) ==
    [op |-> name, extracted |-> extracted, clean_scan |-> "no", before |-> <<>>,
     prev_clean_scan |-> "no"]

\* the response of a rejected upload: every raise inside the handler's try,
\* HTTPException(400) included, leaves it as HTTPException(500)
UploadFailed ==
    [status |-> 500, type |-> "none", data |-> NoRawJson,
     ai_analysis |-> Analysis("none", "none", NoFields), sheets_combined |-> <<>>]

\* the else branch of upload_file once all_dfs is read and not empty.
\* `ai_analysis["sheets_combined"] = sheets_info` raises TypeError when the
\* classifier's JSON is no object.
spreadsheet_result(filename, dfs, skip_ai, ai) ==
    Only({IF analysis.json # "dict" THEN UploadFailed
          ELSE [status |-> 200, type |-> file_type_of(filename), data |-> data,
                ai_analysis |-> analysis, sheets_combined |-> sheets_combined(dfs)] :
             data \in {pd_concat(dfs)}, analysis \in {ai_analysis_of(pd_concat(dfs).columns, skip_ai, ai)}})

\* What upload_file computes before it writes: the status of the response,
\* raw_json["data"], ai_analysis and sheets_info.
upload_result(filename, sheets, skip_ai, ai) ==
    IF ~\E ext \in allowed_extensions : EndsWith(str_lower(filename), ext)
    THEN UploadFailed
    ELSE IF file_type_of(filename) = "pdf"
    THEN [UploadFailed EXCEPT !.status = 200, !.type = "pdf"]
    ELSE Only({IF dfs = <<>> THEN UploadFailed
               ELSE spreadsheet_result(filename, dfs, skip_ai, ai) :
                  dfs \in {all_dfs(filename, sheets)}})

\* the writes of upload_file when it computed r
upload_commit(filename, r) ==
    IF r.status = 200
    THEN /\ documents' = documents @@ (next_doc_id :> new_document(filename))
         /\ raw_data' = raw_data @@ (next_doc_id :> r.data)
         /\ next_doc_id' = next_doc_id + 1
         /\ last_op' = Op("upload", {})
    ELSE UNCHANGED <<documents, raw_data, next_doc_id, last_op>>

\* POST /upload
upload_file(filename, sheets, skip_ai, ai) ==
    /\ next_doc_id <= MaxDocs
    /\ \E r \in {upload_result(filename, sheets, skip_ai, ai)} : upload_commit(filename, r)
    /\ UNCHANGED summaries

\* `"ESTADO DE RESULTADOS" in doc.filename.upper()` and
\* Document.filename.ilike("%ESTADO DE RESULTADOS%")
is_statement(filename) ==
    Contains(<<"E","S","T","A","D","O"," ","D","E"," ","R","E","S","U","L","T","A","D","O","S">>,
             str_upper(filename))

\* the periods a confirmation may name: confirm_data.period is any string
ConfirmPeriods == {<<"2","0","2","5","-","P","1","1">>, <<"2","0","2","5","-","P","1","2">>}

\* POST /upload/confirm
confirm_upload(doc_id, period, scan) ==
    /\ doc_id \in DOMAIN documents
    /\ documents' = [documents EXCEPT ![doc_id].status = "confirmed", ![doc_id].period = period]
    /\ IF is_statement(documents[doc_id].filename)
       THEN /\ summaries' = extract_financial_data_to_summaries(
                                summaries, doc_id, documents[doc_id].filename,
                                raw_data[doc_id], scan).table
            /\ last_op' = Op("confirm", {documents'[doc_id].status})
       ELSE /\ summaries' = summaries
            /\ last_op' = Op("confirm", {})
    /\ UNCHANGED <<raw_data, next_doc_id>>

\* sync_docs without the filter on Document.status
sync_docs_any_status(docs, scan) ==
    LET ids == Ascending({d \in DOMAIN docs : is_statement(docs[d].filename)})
    IN  IF scan = "asc" THEN ids ELSE [k \in 1..Len(ids) |-> ids[Len(ids) + 1 - k]]

\* the documents sync_financial_summaries selects, in the order the query hands
\* them back
sync_docs(docs, scan) ==
    LET ids == Ascending({d \in DOMAIN docs :
                   docs[d].status = "confirmed" /\ is_statement(docs[d].filename)})
    IN  IF scan = "asc" THEN ids ELSE [k \in 1..Len(ids) |-> ids[Len(ids) + 1 - k]]

\* sync_start_table that deletes nothing
sync_start_table_no_delete(clean, table) == table

\* sync_start_table deleting one row (.first()) instead of all of them
sync_start_table_one_row(clean, table) ==
    IF clean /\ table # <<>> THEN Tail(table) ELSE table

\* `if clean: db.query(models.MonthlySummary).delete(); db.commit()`
sync_start_table(clean, table) == IF clean THEN <<>> ELSE table

\* POST /process/sync-summaries
sync_financial_summaries(clean, scan) ==
    LET docs == sync_docs(documents, scan)
        tbl[k \in 0..Len(docs)] ==
            IF k = 0 THEN sync_start_table(clean, summaries)
            ELSE extract_financial_data_to_summaries(
                     tbl[k - 1], docs[k], documents[docs[k]].filename,
                     raw_data[docs[k]], scan).table
    IN  /\ summaries' = tbl[Len(docs)]
        /\ last_op' =
              [op |-> "sync",
               extracted |-> {documents[docs[k]].status : k \in 1..Len(docs)},
               clean_scan |-> IF clean THEN scan ELSE "no",
               before |-> IF clean /\ last_op.clean_scan # "no" THEN summaries ELSE <<>>,
               prev_clean_scan |-> IF clean THEN last_op.clean_scan ELSE "no"]
        /\ UNCHANGED <<documents, raw_data, next_doc_id>>

RestrictTo(f, S) == [x \in S |-> f[x]]

\* DELETE /documents/{doc_id}. monthly_summaries.document_id is a foreign key
\* with no ON DELETE: PostgreSQL refuses the commit while a summary names the
\* document, SQLite (foreign keys off) deletes it.
delete_document(doc_id, fk_enforced) ==
    /\ doc_id \in DOMAIN documents
    /\ IF fk_enforced /\ \E i \in 1..Len(summaries) : summaries[i].document_id = doc_id
       THEN UNCHANGED <<documents, raw_data>>
       ELSE /\ documents' = RestrictTo(documents, DOMAIN documents \ {doc_id})
            /\ raw_data' = RestrictTo(raw_data, DOMAIN raw_data \ {doc_id})
    /\ last_op' = Op("delete", {})
    /\ UNCHANGED <<summaries, next_doc_id>>

EmptyFcn == [x \in {} |-> 0]

\* nothing extracted yet
NoExtract == [done |-> FALSE, stores |-> <<>>, table |-> <<>>]

IdleExtract == /\ sheet_in = NoRawJson /\ extract_out = NoExtract
\* no Firebase handler has run
NoFbOp == [op |-> "none", doc |-> 0, user |-> "none", was |-> "none", result |-> 0]

IdleFirebase == /\ fb_docs = EmptyFcn /\ fb_last = NoFbOp /\ fb_issued = {}
\* the endpoint has not been called
NoDash == [called |-> FALSE, success |-> FALSE, has_data |-> FALSE,
           requested |-> <<>>, current_period |-> <<>>, correlation_coefficient |-> 0,
           previous_period |-> <<>>, gross_margin |-> 0, net_margin |-> 0,
           compare |-> FALSE, change_percent |-> <<>>,
           ranking |-> <<>>, margins |-> <<>>, status |-> <<>>, total_stores |-> 0]

IdleCharts == /\ chart_rows = <<>> /\ dash = NoDash

\* POST /upload has not been called
NoUpload ==
    [called |-> FALSE, filename |-> <<>>, sheets |-> <<>>, skip_ai |-> FALSE,
     ai |-> "no_client", doc_id |-> 0, response |-> UploadFailed]

IdleUpload == up = NoUpload

\* no request is in flight
IdleConcurrent == /\ txn = <<>> /\ observed = <<>>

\* call_ai_with_fallback has not been called
NoAi ==
    [called |-> FALSE, AI_PROVIDER |-> "anthropic", openai_client |-> FALSE,
     anthropic_client |-> FALSE, api |-> <<>>, attempts |-> <<>>, status |-> 0,
     provider |-> "none"]

IdleAi == ai_call = NoAi

\* no limiter has been asked
IdleLimiter == limiter = [requests |-> <<>>, calls |-> <<>>]

Init ==
    /\ documents = EmptyFcn
    /\ raw_data = EmptyFcn
    /\ summaries = <<>>
    /\ next_doc_id = 1
    /\ last_op = NoOp
    /\ IdleExtract /\ IdleFirebase /\ IdleCharts /\ IdleUpload /\ IdleConcurrent /\ IdleAi /\ IdleLimiter

Upload == \E u \in Uploads :
             upload_file(u.filename, << [name |-> sheet_name_1, df |-> u.df] >>, TRUE, "no_client") /\ UNCHANGED <<sheet_in, extract_out, fb_docs, fb_last, fb_issued, chart_rows, dash, up, txn, observed, ai_call, limiter>>
Confirm == \E d \in 1..MaxDocs, period \in ConfirmPeriods, scan \in ScanOrders :
             confirm_upload(d, period, scan) /\ UNCHANGED <<sheet_in, extract_out, fb_docs, fb_last, fb_issued, chart_rows, dash, up, txn, observed, ai_call, limiter>>
Sync == \E clean \in BOOLEAN, scan \in ScanOrders :
             sync_financial_summaries(clean, scan) /\ UNCHANGED <<sheet_in, extract_out, fb_docs, fb_last, fb_issued, chart_rows, dash, up, txn, observed, ai_call, limiter>>
Delete == \E d \in 1..MaxDocs, fk \in BOOLEAN :
             delete_document(d, fk) /\ UNCHANGED <<sheet_in, extract_out, fb_docs, fb_last, fb_issued, chart_rows, dash, up, txn, observed, ai_call, limiter>>

Next == Upload \/ Confirm \/ Sync \/ Delete

Spec == Init /\ [][Next]_vars

-----------------------------------------------------------------------------
(* Claims about the PostgreSQL backend, checked under Spec *)

\* the rows of a table as a bag: which rows it holds and how often
Contents(table) ==
    LET rows == {table[i] : i \in 1..Len(table)}
    IN  [r \in rows |-> Cardinality({i \in 1..Len(table) : table[i] = r})]

has_rows(d) == raw_data[d] # NoRawJson /\ raw_data[d].rows # <<>>

extract_doc(table, d, scan) ==
    extract_financial_data_to_summaries(table, d, documents[d].filename, raw_data[d], scan).table

\* C1: for every confirmed document with stored rows, extracting it twice in
\* succession leaves monthly_summaries as extracting it once does.
C1_ExtractTwiceAsOnce ==
    \A d \in DOMAIN documents :
        (documents[d].status = "confirmed" /\ has_rows(d)) =>
            \A s1 \in ScanOrders, s2 \in ScanOrders :
                Contents(extract_doc(extract_doc(summaries, d, s1), d, s2))
                    = Contents(extract_doc(summaries, d, s1))

\* C2: every monthly_summaries row has gross_profit = total_sales - cost_of_sales,
\* and gross_margin = 0 whenever total_sales <= 0.
C2_MarginInvariant ==
    \A i \in 1..Len(summaries) :
        /\ summaries[i].gross_profit = summaries[i].total_sales - summaries[i].cost_of_sales
        /\ summaries[i].total_sales <= 0 => summaries[i].gross_margin = Zero

\* C2 witness: a row without sales was written over a row that had sales, next to
\* a row with sales
C2_Witness ==
    /\ last_op.op = "confirm"
    /\ \E i \in 1..Len(summaries) :
          summaries[i].total_sales = 0 /\ summaries[i].gross_profit < 0
    /\ \E i \in 1..Len(summaries) :
          summaries[i].total_sales > 0 /\ summaries[i].gross_margin # Zero

\* C3: monthly_summaries holds at most one row per (store_id, period).
C3_OneRowPerKey ==
    \A i \in 1..Len(summaries), j \in 1..Len(summaries) :
        (summaries[i].store_id = summaries[j].store_id
            /\ summaries[i].period = summaries[j].period) => i = j

last_two_clean_syncs ==
    /\ last_op.op = "sync"
    /\ last_op.clean_scan # "no"
    /\ last_op.prev_clean_scan # "no"

-----------------------------------------------------------------------------
(* The extractor as a function of the sheet: SpecExtract draws a stored sheet
   and applies extract_financial_data_to_summaries to it on an empty table. *)

\* data rows per sheet, the header row not counted
MaxRows == 2

key_P11 == <<"P","1","1">>
key_Concepto == <<"C","o","n","c","e","p","t","o">>
key_T1 == <<"T","1">>
key_T2 == <<"T","2">>
key_Unnamed_1 == <<"U","n","n","a","m","e","d",":"," ","1">>
key_hoja_origen == <<"_","h","o","j","a","_","o","r","i","g","e","n">>

\* the column keys of a sheet: a concept column and two value columns
KeyVariants ==
    { <<key_P11, key_T1, key_T2>>,
      <<key_Concepto, key_T1, key_T2>>,
      <<key_P11, key_Unnamed_1, key_T2>>,
      <<key_P11, key_T1, key_hoja_origen>> }

name_Tienda_Centro == <<"T","i","e","n","d","a"," ","C","e","n","t","r","o">>
name_Tienda_Norte == <<"T","i","e","n","d","a"," ","N","o","r","t","e">>
name_TOTAL == <<"T","O","T","A","L">>
name_percent == <<"%">>

\* first rows
HeaderVariants ==
    { <<None, Str(name_Tienda_Centro), Str(name_Tienda_Norte)>>,
      <<None, Str(name_Tienda_Centro), Str(name_TOTAL)>>,
      <<None, Str(name_TOTAL), Str(name_Tienda_Centro)>>,
      <<None, Str(name_percent), Str(name_Tienda_Norte)>> }

row_INGRESOS == <<Str(<<"I","N","G","R","E","S","O","S">>), Num(10000), Num(8000)>>
row_COSTO_DE_VENTA == <<Str(<<"C","O","S","T","O"," ","D","E"," ","V","E","N","T","A">>), Num(3000), Num(2000)>>

\* concept rows: a label and one cell per value column
RowCatalog ==
    { row_INGRESOS,
      row_COSTO_DE_VENTA,
      <<Str(<<"N","O","M","I","N","A"," ","S","U","C","U","R","S","A","L"," ","C","E","N","T","R","O">>), Num(1500), Num(1200)>>,
      <<Str(<<"s","u","e","l","d","o","s"," ","a","d","m","i","n","i","s","t","r","a","t","i","v","o","s"," ">>), Num(300), None>>,
      <<Str(<<"G","A","S","T","O","S"," ","D","E"," ","N","O","M","I","N","A">>), Num(400), Num(350)>>,
      <<Str(<<"L","U","Z">>), Num(200), Num(150)>>,
      <<Str(<<"A","G","U","A"," ","Y"," ","G","A","S">>), Num(90), Num(70)>>,
      <<Str(<<"U","T","I","L","I","D","A","D"," ","N","E","T","A">>), Num(2500), Num(2100)>>,
      <<Str(<<"E","D","O"," ","R","E","S"," ","N","O","M","I","N","A">>), Num(50), Num(60)>> }

RowSeqs == UNION {[1..n -> RowCatalog] : n \in 1..MaxRows}

InitExtract ==
    /\ documents = EmptyFcn
    /\ raw_data = EmptyFcn
    /\ summaries = <<>>
    /\ next_doc_id = 1
    /\ last_op = NoOp
    /\ \E columns \in KeyVariants, header_row \in HeaderVariants, rows \in RowSeqs :
          sheet_in = [columns |-> columns, rows |-> <<header_row>> \o rows]
    /\ extract_out = NoExtract
    /\ IdleFirebase /\ IdleCharts /\ IdleUpload /\ IdleConcurrent /\ IdleAi /\ IdleLimiter

\* extract_financial_data_to_summaries(doc_id, db) for a confirmed document
\* "ESTADO DE RESULTADOS P11.xlsx" holding sheet_in, monthly_summaries empty
ExtractSheet ==
    /\ ~extract_out.done
    /\ extract_out' =
          [done |-> TRUE,
           stores |-> extract_stores(sheet_in),
           table |-> extract_financial_data_to_summaries(
                         <<>>, 1, fn_statement_P11, sheet_in, "asc").table]
    /\ UNCHANGED <<documents, raw_data, summaries, next_doc_id, last_op, sheet_in,
                   fb_docs, fb_last, fb_issued, chart_rows, dash, up, txn, observed, ai_call, limiter>>

NextExtract == ExtractSheet

SpecExtract == InitExtract /\ [][NextExtract]_vars

-----------------------------------------------------------------------------
(* Claims about the extractor, checked under SpecExtract *)

RECURSIVE SumCells(_, _, _)
\* the sum of the cells of column i over the rows R of a sheet
SumCells(data, i, R) ==
    IF R = {} THEN 0
    ELSE LET r == CHOOSE x \in R : TRUE
         IN  data.rows[r][i].v + SumCells(data, i, R \ {r})

\* the rows of a sheet that carry a concept and a number in column i
concept_rows(data, i) ==
    {r \in 2..Len(data.rows) :
        /\ first_col_val(data.columns, data.rows[r]) # <<>>
        /\ is_number(data.rows[r][i])}

\* the sheet names a store in each value column and its rows are INGRESOS and
\* COSTO DE VENTA with a number per store
is_sales_and_cost_sheet(data) ==
    /\ Len(data.rows) = 3
    /\ \A i \in 2..Len(data.columns) :
          /\ data.rows[1][i] \in {Str(name_Tienda_Centro), Str(name_Tienda_Norte)}
          /\ is_number(data.rows[2][i]) /\ is_number(data.rows[3][i])
    /\ data.rows[2][1] = Str(<<"I","N","G","R","E","S","O","S">>)
    /\ data.rows[3][1] = Str(<<"C","O","S","T","O"," ","D","E"," ","V","E","N","T","A">>)

\* C5: for a sheet whose first row names the stores and whose rows are INGRESOS
\* and COSTO DE VENTA, the extraction writes for each store a row with
\* total_sales = INGRESOS, cost_of_sales = COSTO DE VENTA, gross_profit their
\* difference and gross_margin = gross_profit / total_sales * 100, whatever the
\* column keys are (Unnamed placeholders and the sheet tag, which are no
\* columns of the sheet's own, left aside).
C5_SalesAndCostAnyKeys ==
    (/\ extract_out.done
     /\ is_sales_and_cost_sheet(sheet_in)
     /\ \A i \in 1..Len(sheet_in.columns) : key_is_data(sheet_in.columns[i])) =>
        \A i \in 2..Len(sheet_in.columns) :
            \E k \in 1..Len(extract_out.table) :
                LET row == extract_out.table[k]
                    sales == sheet_in.rows[2][i].v
                    cost == sheet_in.rows[3][i].v
                IN  /\ row.store_name = str_upper(sheet_in.rows[1][i].s)
                    /\ row.total_sales = sales
                    /\ row.cost_of_sales = cost
                    /\ row.gross_profit = sales - cost
                    /\ row.gross_margin.num * sales = (sales - cost) * 100 * row.gross_margin.den

\* the label of row r of a sheet names one of the words
label_has_any(data, r, words) ==
    \E w \in words : Contains(w, first_col_val(data.columns, data.rows[r]))

labor_words == {<<"N","O","M","I","N","A">>, <<"S","A","L","A","R","I","O">>, <<"S","U","E","L","D","O">>}
utilities_words == {<<"C","F","E">>, <<"L","U","Z">>, <<"E","L","E","C","T","R","I","C","I","D","A","D">>, <<"A","G","U","A">>, <<"G","A","S">>}

\* the rows the chain classifies into a field for column i: not skipped as a
\* sheet label, and the field is the one of the first matching rule
classified_rows(data, i, field) ==
    {r \in concept_rows(data, i) :
        LET concept == first_col_val(data.columns, data.rows[r])
        IN  /\ ~Contains(<<"E","D","O"," ","R","E","S">>, concept)
            /\ first_rule(concept) = field}

overwritten_fields == {"total_sales", "cost_of_sales", "operating_expenses", "rent", "net_profit"}

\* every field but labor_cost and utilities holds the value of the last row
\* classified into it, or 0
single_row_fields(data, store) ==
    LET i == IndexIn(store.col_key, data.columns)
    IN  \A f \in overwritten_fields :
            LET R == classified_rows(data, i, f)
            IN  store[f] = IF R = {} THEN 0 ELSE data.rows[SetMax(R)][i].v

\* C6 as stated: labor_cost is the sum over all concept rows whose label
\* contains NOMINA, SALARIO or SUELDO, utilities the sum over all concept rows
\* whose label contains CFE, LUZ, ELECTRICIDAD, AGUA or GAS, and every other
\* field holds the value of a single matching row or 0.
C6_SumsOverLabelsContaining ==
    extract_out.done =>
        \A k \in 1..Len(extract_out.stores) :
            LET store == extract_out.stores[k]
                i == IndexIn(store.col_key, sheet_in.columns)
                rows == concept_rows(sheet_in, i)
            IN  /\ store.labor_cost =
                      SumCells(sheet_in, i, {r \in rows : label_has_any(sheet_in, r, labor_words)})
                /\ store.utilities =
                      SumCells(sheet_in, i, {r \in rows : label_has_any(sheet_in, r, utilities_words)})
                /\ single_row_fields(sheet_in, store)

\* C6 amended: labor_cost is the sum over the concept rows the ordered chain
\* classifies as labor, utilities the sum over those it classifies as
\* utilities (a row counts for its first matching rule only, rows holding
\* "EDO RES" for none), and every other field holds the value of the last row
\* classified into it or 0.
C6_SumsOverFirstMatch ==
    extract_out.done =>
        \A k \in 1..Len(extract_out.stores) :
            LET store == extract_out.stores[k]
                i == IndexIn(store.col_key, sheet_in.columns)
            IN  /\ store.labor_cost = SumCells(sheet_in, i, classified_rows(sheet_in, i, "labor_cost"))
                /\ store.utilities = SumCells(sheet_in, i, classified_rows(sheet_in, i, "utilities"))
                /\ single_row_fields(sheet_in, store)

\* C6 witness: a store's labor_cost is the 1800 of two labor rows
C6_Witness ==
    /\ extract_out.done
    /\ \E k \in 1..Len(extract_out.stores) :
          LET store == extract_out.stores[k]
              i == IndexIn(store.col_key, sheet_in.columns)
          IN  /\ Cardinality(classified_rows(sheet_in, i, "labor_cost")) = 2
              /\ store.labor_cost = 1800

header_is(data, i, name) == data.rows[1][i] = Str(name)

id_tienda_centro == <<"t","i","e","n","d","a","_","c","e","n","t","r","o">>

\* the extraction has a store for column i with this store_id, and a summary row
is_store_with_id(data, out, i, store_id) ==
    /\ \E k \in 1..Len(out.stores) :
          out.stores[k].col_key = data.columns[i] /\ out.stores[k].store_id = store_id
    /\ \E k \in 1..Len(out.table) : out.table[k].store_id = store_id

\* no store and no summary row comes from column i
is_no_store(data, out, i) ==
    /\ ~\E k \in 1..Len(out.stores) : out.stores[k].col_key = data.columns[i]
    /\ ~\E k \in 1..Len(out.table) :
           out.table[k].store_name = str_upper(str_strip(data.rows[1][i].s))

\* C7 as stated: a header cell "TOTAL" never becomes a store column, and a
\* header cell "Tienda Centro" becomes a store column with store_id
\* "tienda_centro".
C7_HeaderCells ==
    extract_out.done =>
        \A i \in 1..Len(sheet_in.columns) :
            /\ header_is(sheet_in, i, name_TOTAL) => is_no_store(sheet_in, extract_out, i)
            /\ header_is(sheet_in, i, name_Tienda_Centro)
                  => is_store_with_id(sheet_in, extract_out, i, id_tienda_centro)

\* C7 amended: a header cell "TOTAL" never becomes a store column, and a
\* header cell "Tienda Centro" under a key that holds neither "Unnamed" nor
\* "_hoja" becomes a store column with store_id "tienda_centro".
C7_HeaderCellsOfDataKeys ==
    extract_out.done =>
        \A i \in 1..Len(sheet_in.columns) :
            /\ header_is(sheet_in, i, name_TOTAL) => is_no_store(sheet_in, extract_out, i)
            /\ (header_is(sheet_in, i, name_Tienda_Centro) /\ key_is_data(sheet_in.columns[i]))
                  => is_store_with_id(sheet_in, extract_out, i, id_tienda_centro)

\* C7 witness: a sheet with a "TOTAL" header cell and a "Tienda Centro" header
\* cell was extracted and has the summary row of tienda_centro only
C7_Witness ==
    /\ extract_out.done
    /\ \E i \in 1..Len(sheet_in.columns) :
          header_is(sheet_in, i, name_TOTAL) /\ key_is_data(sheet_in.columns[i])
    /\ \E i \in 1..Len(sheet_in.columns) : header_is(sheet_in, i, name_Tienda_Centro)
    /\ Len(extract_out.table) = 1
    /\ extract_out.table[1].store_id = id_tienda_centro
    /\ extract_out.table[1].total_sales > 0

-----------------------------------------------------------------------------
(* The Firebase document router (routers/documents.py): SpecFirebase.
   A handler that awaits the text extraction and the analysis between two
   writes of the status is two steps, with the document in flight between. *)

\* documents uuid4 hands out
MaxFbDocs == 2

Franchises == {"f1", "f2"}

FbOp(op, doc, user, was, result) ==
    [op |-> op, doc |-> doc, user |-> user, was |-> was, result |-> result]

fb_status_of(d) == IF d \in DOMAIN fb_docs THEN fb_docs[d].status ELSE "none"

\* POST /upload up to create_document: status "processing"
fb_upload_document(user, type_allowed) ==
    IF ~type_allowed
    THEN /\ fb_last' = FbOp("upload", 0, user, "none", 400)
         /\ UNCHANGED <<fb_docs, fb_issued>>
    ELSE \E d \in 1..MaxFbDocs :
            /\ d \notin fb_issued
            /\ fb_issued' = fb_issued \cup {d}
            /\ fb_docs' = [x \in DOMAIN fb_docs \cup {d} |->
                              IF x = d
                              THEN [franchise_id |-> user, status |-> "processing",
                                    inflight |-> "upload"]
                              ELSE fb_docs[x]]
            /\ fb_last' = FbOp("upload", d, user, "none", 0)

\* POST /upload after the processing: "completed", or "failed" from the
\* handler of processing_error (also when financial_data cannot be written)
fb_upload_finish(d, ok) ==
    /\ d \in DOMAIN fb_docs
    /\ fb_docs[d].inflight = "upload"
    /\ fb_docs' = [fb_docs EXCEPT ![d].status = IF ok THEN "completed" ELSE "failed",
                                  ![d].inflight = "none"]
    /\ fb_last' = FbOp("upload_finish", d, fb_docs[d].franchise_id, fb_docs[d].status,
                       IF ok THEN 200 ELSE 500)
    /\ UNCHANGED fb_issued

\* GET /{document_id}
fb_get_document(d, user) ==
    /\ fb_last' = FbOp("get", d, user, fb_status_of(d),
                       IF d \notin DOMAIN fb_docs THEN 404
                       ELSE IF fb_docs[d].franchise_id # user THEN 403 ELSE 200)
    /\ UNCHANGED <<fb_docs, fb_issued>>

\* DELETE /{document_id}
fb_delete_document(d, user) ==
    /\ IF d \notin DOMAIN fb_docs
       THEN /\ fb_last' = FbOp("delete", d, user, "none", 404)
            /\ UNCHANGED fb_docs
       ELSE IF fb_docs[d].franchise_id # user
       THEN /\ fb_last' = FbOp("delete", d, user, fb_docs[d].status, 403)
            /\ UNCHANGED fb_docs
       ELSE /\ fb_last' = FbOp("delete", d, user, fb_docs[d].status, 200)
            /\ fb_docs' = RestrictTo(fb_docs, DOMAIN fb_docs \ {d})
    /\ UNCHANGED fb_issued

\* reprocess_document writing "completed" where it marks the document as
\* processing
fb_mark_completed(doc) == [doc EXCEPT !.status = "completed", !.inflight = "reprocess"]

\* `update_document(..., {"status": DocumentStatus.PROCESSING.value})`
fb_mark_processing(doc) == [doc EXCEPT !.status = "processing", !.inflight = "reprocess"]

\* `except Exception` of reprocess_document: status "failed"
fb_mark_failed(doc) == [doc EXCEPT !.status = "failed"]

\* POST /{document_id}/reprocess up to the status "processing". No franchise
\* check: the file is looked for under the caller's franchise, so the
\* download succeeds for the owner's franchise only; a failed download ends
\* in the `except Exception`, which writes "failed". For a missing document
\* the 404 is caught there too and update_document raises.
fb_reprocess_document(d, user, download_ok) ==
    /\ IF d \notin DOMAIN fb_docs
       THEN /\ fb_last' = FbOp("reprocess", d, user, "none", 500)
            /\ UNCHANGED fb_docs
       ELSE IF download_ok
       THEN /\ fb_docs[d].franchise_id = user
            /\ fb_docs[d].inflight = "none"
            /\ fb_docs' = [fb_docs EXCEPT ![d] = fb_mark_processing(@)]
            /\ fb_last' = FbOp("reprocess", d, user, fb_docs[d].status, 0)
       ELSE /\ fb_docs' = [fb_docs EXCEPT ![d] = fb_mark_failed(@)]
            /\ fb_last' = FbOp("reprocess", d, user, fb_docs[d].status, 500)
    /\ UNCHANGED fb_issued

\* POST /{document_id}/reprocess after the processing: "completed" or "failed"
fb_reprocess_finish(d, ok) ==
    /\ d \in DOMAIN fb_docs
    /\ fb_docs[d].inflight = "reprocess"
    /\ fb_docs' = [fb_docs EXCEPT ![d].status = IF ok THEN "completed" ELSE "failed",
                                  ![d].inflight = "none"]
    /\ fb_last' = FbOp("reprocess_finish", d, fb_docs[d].franchise_id, fb_docs[d].status,
                       IF ok THEN 200 ELSE 500)
    /\ UNCHANGED fb_issued

pg_idle_vars == <<documents, raw_data, summaries, next_doc_id, last_op,
                  sheet_in, extract_out, chart_rows, dash, up, txn, observed, ai_call, limiter>>

InitFirebase ==
    /\ documents = EmptyFcn
    /\ raw_data = EmptyFcn
    /\ summaries = <<>>
    /\ next_doc_id = 1
    /\ last_op = NoOp
    /\ IdleExtract /\ IdleFirebase /\ IdleCharts /\ IdleUpload /\ IdleConcurrent /\ IdleAi /\ IdleLimiter

FbUpload == \E user \in Franchises, type_allowed \in BOOLEAN :
                fb_upload_document(user, type_allowed) /\ UNCHANGED pg_idle_vars
FbUploadFinish == \E d \in 1..MaxFbDocs, ok \in BOOLEAN :
                fb_upload_finish(d, ok) /\ UNCHANGED pg_idle_vars
FbGet == \E d \in 1..MaxFbDocs, user \in Franchises :
                fb_get_document(d, user) /\ UNCHANGED pg_idle_vars
FbDelete == \E d \in 1..MaxFbDocs, user \in Franchises :
                fb_delete_document(d, user) /\ UNCHANGED pg_idle_vars
FbReprocess == \E d \in 1..MaxFbDocs, user \in Franchises, download_ok \in BOOLEAN :
                fb_reprocess_document(d, user, download_ok) /\ UNCHANGED pg_idle_vars
FbReprocessFinish == \E d \in 1..MaxFbDocs, ok \in BOOLEAN :
                fb_reprocess_finish(d, ok) /\ UNCHANGED pg_idle_vars

NextFirebase ==
    FbUpload \/ FbUploadFinish \/ FbGet \/ FbDelete \/ FbReprocess \/ FbReprocessFinish

SpecFirebase == InitFirebase /\ [][NextFirebase]_vars

\* C10 as stated: once a document's status is failed, no step changes it to
\* any other value.
C10_FailedIsTerminal ==
    [][ \A d \in DOMAIN fb_docs \cap DOMAIN fb_docs' :
            fb_docs[d].status = "failed" => fb_docs'[d].status = "failed" ]_vars

\* C10 amended: a failed document leaves that status only when
\* reprocess_document is called on it and marks it as processing, or when an
\* upload or reprocess that was already in flight on it writes its outcome.
C10_FailedLeftByReprocess ==
    [][ \A d \in DOMAIN fb_docs \cap DOMAIN fb_docs' :
            (fb_docs[d].status = "failed" /\ fb_docs'[d].status # "failed") =>
                /\ fb_last'.doc = d
                /\ \/ fb_last'.op = "reprocess" /\ fb_docs'[d].status = "processing"
                   \/ /\ fb_docs[d].inflight # "none"
                      /\ fb_last'.op \in {"upload_finish", "reprocess_finish"} ]_vars

\* C10 witness: reprocess_document has marked a failed document as processing
C10_Witness ==
    /\ fb_last.op = "reprocess"
    /\ fb_last.was = "failed"
    /\ fb_last.doc \in DOMAIN fb_docs
    /\ fb_docs[fb_last.doc].status = "processing"

-----------------------------------------------------------------------------
(* get_dashboard_charts_data: SpecCharts draws the rows of monthly_summaries
   and calls the endpoint once.

   np.corrcoef works on binary floating point.  The model keeps the rounding
   where the outcome hangs on it: the running sum and the quotient of the
   mean and the subtraction of the mean are rounded to FloatMantissaBits
   significant bits, to nearest, ties to even.  The products, the square
   roots and the last quotient are exact: their rounding moves a non-zero
   coefficient by a relative error and cannot make it zero. *)

\* significant bits of a float of the model (53 for a double)
FloatMantissaBits == 12

\* rows of monthly_summaries
MaxStores == 3

RECURSIVE Pow2(_)
Pow2(k) == IF k = 0 THEN 1 ELSE 2 * Pow2(k - 1)

\* a / b (a >= 0, b > 0) rounded to an integer, ties to even
RoundHalfEven(a, b) ==
    LET q == a \div b
        r == a % b
    IN  IF 2 * r < b THEN q
        ELSE IF 2 * r > b THEN q + 1
        ELSE IF q % 2 = 0 THEN q ELSE q + 1

RECURSIVE ScaleDown(_, _)
\* the least e >= 0 with n / (d * 2^e) < 2^FloatMantissaBits
ScaleDown(n, d) ==
    IF n < d * Pow2(FloatMantissaBits) THEN 0 ELSE 1 + ScaleDown(n, 2 * d)

RECURSIVE ScaleUp(_, _)
\* the least k >= 0 with (n * 2^k) / d >= 2^(FloatMantissaBits - 1)
ScaleUp(n, d) ==
    IF n >= d * Pow2(FloatMantissaBits - 1) THEN 0 ELSE 1 + ScaleUp(2 * n, d)

\* the float nearest to n / d (d > 0), as a fraction
RoundFloat(n, d) ==
    IF n = 0 THEN Zero
    ELSE LET a == Abs(n)
             sign == IF n < 0 THEN -1 ELSE 1
             e == ScaleDown(a, d)
             k == ScaleUp(a, d)
         IN  IF e > 0 THEN Ratio(sign * RoundHalfEven(a, d * Pow2(e)) * Pow2(e), 1)
             ELSE Ratio(sign * RoundHalfEven(a * Pow2(k), d), Pow2(k))

FloatAdd(x, y) ==
    Only({RoundFloat(n, d) : n \in {x.num * y.den + y.num * x.den}, d \in {x.den * y.den}})
FloatSub(x, y) ==
    Only({RoundFloat(n, d) : n \in {x.num * y.den - y.num * x.den}, d \in {x.den * y.den}})

\* np.mean of a row of the matrix: the sum taken left to right, then / n
np_mean(values) ==
    LET sum[k \in 0..Len(values)] ==
            IF k = 0 THEN Zero
            ELSE Only({FloatAdd(prev, Ratio(values[k], 1)) : prev \in {sum[k - 1]}})
    IN  Only({RoundFloat(total.num, total.den * Len(values)) : total \in {sum[Len(values)]}})

RECURSIVE SeqGCD(_, _)
SeqGCD(xs, k) == IF k = 0 THEN 0 ELSE GCD(Abs(xs[k]), SeqGCD(xs, k - 1))

\* `X -= avg`
subtract_mean(values, avg) ==
    [k \in 1..Len(values) |-> Only({FloatSub(Ratio(v, 1), avg) : v \in {values[k]}})]

\* fractions as integers in the unit of the finest of them
in_common_unit(dev) ==
    Only({[k \in 1..Len(dev) |-> dev[k].num * (unit \div dev[k].den)] :
             unit \in {SetMax({dev[k].den : k \in 1..Len(dev)})}})

\* integers divided by their greatest common divisor
in_lowest_terms(ints) ==
    Only({IF g = 0 THEN ints ELSE [k \in 1..Len(ints) |-> ints[k] \div g] :
             g \in {SeqGCD(ints, Len(ints))}})

\* the deviations from the mean as integers in a common unit (the coefficient
\* does not depend on the unit)
deviations(values) ==
    Only({in_lowest_terms(ints) :
             ints \in {in_common_unit(dev) :
                         dev \in {subtract_mean(values, avg) : avg \in {np_mean(values)}}}})

RECURSIVE Dot(_, _, _)
Dot(xs, ys, k) == IF k = 0 THEN 0 ELSE xs[k] * ys[k] + Dot(xs, ys, k - 1)

RECURSIVE FracLeq(_, _, _, _)
\* a / b <= c / d for a, c >= 0 and b, d > 0, without forming a * d
FracLeq(a, b, c, d) ==
    IF a \div b # c \div d THEN a \div b < c \div d
    ELSE IF a % b = 0 THEN TRUE
    ELSE IF c % d = 0 THEN FALSE
    ELSE FracLeq(d, c % d, b, a % b)

\* the matrix of np.cov, up to the factor 1 / (n - 1)
covariances(dx, dy) ==
    Only({[nan |-> cxx = 0 \/ cyy = 0, cxy |-> cxy, cxx |-> cxx, cyy |-> cyy] :
             cxx \in {Dot(dx, dx, Len(dx))}, cyy \in {Dot(dy, dy, Len(dy))},
             cxy \in {Dot(dx, dy, Len(dx))}})

\* np.corrcoef(sales_list, expenses_list)[0, 1]: nan when a variance is 0,
\* else the covariance and the two variances, r = cxy / sqrt(cxx * cyy)
np_corrcoef(xs, ys) ==
    Only({covariances(dx, dy) : dx \in {deviations(xs)}, dy \in {deviations(ys)}})

\* round(abs(r), 2) in hundredths: the greatest k with (2k - 1) / 200 <= |r|,
\* that is (2k - 1)^2 * lo / (200 * |cxy|) <= 200 * |cxy| / hi
round_2(c) ==
    LET lo == IF c.cxx < c.cyy THEN c.cxx ELSE c.cyy
        hi == IF c.cxx < c.cyy THEN c.cyy ELSE c.cxx
        reaches(k) == FracLeq((2 * k - 1) * (2 * k - 1) * lo, 200 * Abs(c.cxy),
                              200 * Abs(c.cxy), hi)
    IN  IF c.cxy = 0 THEN 0 ELSE SetMax({k \in 0..100 : k = 0 \/ reaches(k)})

\* correlation_coef, then round(correlation_coef, 2), in hundredths
correlation_coefficient(sales_list, expenses_list) ==
    IF Len(sales_list) >= 2 /\ Len(expenses_list) >= 2
    THEN Only({IF c.nan THEN 0 ELSE (IF c.cxy < 0 THEN -1 ELSE 1) * round_2(c) :
                  c \in {np_corrcoef(sales_list, expenses_list)}})
    ELSE 0

period_P11 == <<"2","0","2","5","-","P","1","1">>
period_P12 == <<"2","0","2","5","-","P","1","2">>

\* the order of the characters of a period label
char_order == <<"-","0","1","2","3","4","5","6","7","8","9","P">>

RECURSIVE str_less(_, _)
\* s < t for period labels
str_less(s, t) ==
    IF t = <<>> THEN FALSE
    ELSE IF s = <<>> THEN TRUE
    ELSE IF Head(s) # Head(t) THEN IndexIn(Head(s), char_order) < IndexIn(Head(t), char_order)
    ELSE str_less(Tail(s), Tail(t))

RECURSIVE Descending(_)
\* a set of period labels, greatest first
Descending(S) ==
    IF S = {} THEN <<>>
    ELSE LET top == CHOOSE x \in S : \A y \in S : y = x \/ str_less(y, x)
         IN  <<top>> \o Descending(S \ {top})

\* `distinct().order_by(desc(period)).limit(12)`
available_periods(rows) ==
    LET all == Descending({rows[i].period : i \in 1..Len(rows)})
    IN  SubSeq(all, 1, IF Len(all) > 12 THEN 12 ELSE Len(all))

\* the rows of a period, in table order
rows_of_period(rows, period) ==
    LET idx == Ascending({i \in 1..Len(rows) : rows[i].period = period})
    IN  [k \in 1..Len(idx) |-> rows[idx[k]]]

\* a < b for fractions
RatioLess(a, b) == a.num * b.den < b.num * a.den

RatioAdd(a, b) == Ratio(a.num * b.den + b.num * a.den, a.den * b.den)

\* round(x, 1) in tenths: to nearest; an exact tie of the float (k + 0.25,
\* k + 0.75) goes to even, which is what the model does for every tie
round_1(x) == (IF x.num < 0 THEN -1 ELSE 1) * RoundHalfEven(Abs(x.num) * 10, x.den)

RECURSIVE sum_of(_, _, _)
\* func.sum(column) over rows, `or 0`
sum_of(rows, field, k) == IF k = 0 THEN 0 ELSE rows[k][field] + sum_of(rows, field, k - 1)

RECURSIVE by_net_margin_desc(_, _, _)
\* order_by(desc(net_margin)): the rows of S, greatest margin first; rows with
\* the same margin come in the order the database hands them back
by_net_margin_desc(rows, S, scan) ==
    IF S = {} THEN <<>>
    ELSE LET tops == {i \in S : \A j \in S : ~RatioLess(rows[i].net_margin, rows[j].net_margin)}
             top == IF scan = "asc" THEN SetMin(tops) ELSE SetMax(tops)
         IN  <<rows[top]>> \o by_net_margin_desc(rows, S \ {top}, scan)

\* .limit(n)
limit(rows, n) == SubSeq(rows, 1, IF Len(rows) > n THEN n ELSE Len(rows))

RECURSIVE by_total_sales_desc(_, _, _)
\* .order_by(desc(MonthlySummary.total_sales)): the rows of S, ties in the
\* order the database hands them back
by_total_sales_desc(rows, S, scan) ==
    IF S = {} THEN <<>>
    ELSE LET tops == {i \in S : \A j \in S : rows[i].total_sales >= rows[j].total_sales}
             top == IF scan = "asc" THEN SetMin(tops) ELSE SetMax(tops)
         IN  <<rows[top]>> \o by_total_sales_desc(rows, S \ {top}, scan)

\* store_data: the rows of the current period by total_sales, at most 7
store_data(current_rows, scan) ==
    limit(by_total_sales_desc(current_rows, 1..Len(current_rows), scan), 7)

\* get_status with > in place of >=
get_status_above(margin) ==
    IF margin.num > 20 * margin.den THEN "excellent"
    ELSE IF margin.num > 15 * margin.den THEN "good"
    ELSE IF margin.num > 10 * margin.den THEN "warning"
    ELSE "critical"

get_status(margin) ==
    IF margin.num >= 20 * margin.den THEN "excellent"
    ELSE IF margin.num >= 15 * margin.den THEN "good"
    ELSE IF margin.num >= 10 * margin.den THEN "warning"
    ELSE "critical"

\* calc_change(current, previous), in tenths
calc_change(current, previous) ==
    IF previous # 0 /\ previous > 0
    THEN round_1(Ratio((current - previous) * 100, previous))
    ELSE 0

RECURSIVE RatioSum(_, _)
\* sum(r.net_margin or 0 for r in ranking_data)
RatioSum(rows, k) ==
    IF k = 0 THEN Zero ELSE RatioAdd(rows[k].net_margin, RatioSum(rows, k - 1))

\* avg_margin
avg_margin(ranking_data) ==
    IF Len(ranking_data) > 0
    THEN Only({Ratio(total.num, total.den * Len(ranking_data)) :
                  total \in {RatioSum(ranking_data, Len(ranking_data))}})
    ELSE Zero

\* change_percent of compare_chart
change_percent(current_rows, previous_rows) ==
    << calc_change(sum_of(current_rows, "total_sales", Len(current_rows)),
                   sum_of(previous_rows, "total_sales", Len(previous_rows))),
       calc_change(sum_of(current_rows, "operating_expenses", Len(current_rows)),
                   sum_of(previous_rows, "operating_expenses", Len(previous_rows))),
       calc_change(sum_of(current_rows, "net_profit", Len(current_rows)),
                   sum_of(previous_rows, "net_profit", Len(previous_rows))) >>

\* summary["gross_margin"], in tenths
summary_gross_margin(current_rows) ==
    Only({IF total_sales > 0
          THEN round_1(Ratio((total_sales - total_cost_of_sales) * 100, total_sales))
          ELSE 0 :
             total_sales \in {sum_of(current_rows, "total_sales", Len(current_rows))},
             total_cost_of_sales \in {sum_of(current_rows, "cost_of_sales", Len(current_rows))}})

\* the payload for the rows of the current period and the ranking: what the
\* model keeps of correlationChart, compareChart, rankingChart and summary
charts_of(periods, current_period, current_rows, ranking_data) ==
    [called |-> TRUE, success |-> TRUE, has_data |-> TRUE,
     requested |-> <<>>,
     current_period |-> current_period,
     correlation_coefficient |->
        correlation_coefficient([k \in 1..Len(current_rows) |-> current_rows[k].total_sales],
                                [k \in 1..Len(current_rows) |->
                                    current_rows[k].operating_expenses]),
     previous_period |-> IF Len(periods) > 1 THEN periods[2] ELSE <<>>,
     gross_margin |-> summary_gross_margin(current_rows),
     net_margin |-> round_1(avg_margin(ranking_data)),
     compare |-> Len(periods) > 1,
     change_percent |->
        IF Len(periods) > 1
        THEN change_percent(current_rows, rows_of_period(chart_rows, periods[2]))
        ELSE <<>>,
     ranking |-> [k \in 1..Len(ranking_data) |-> ranking_data[k].store_id],
     margins |-> [k \in 1..Len(ranking_data) |-> round_1(ranking_data[k].net_margin)],
     status |-> [k \in 1..Len(ranking_data) |-> get_status(ranking_data[k].net_margin)],
     total_stores |-> 0]

\* GET /api/charts/dashboard?period=...; period <<>> stands for None, scan is
\* the order in which the database hands back rows that the ORDER BY leaves tied
get_dashboard_charts_data(period, scan) ==
    IF Len(chart_rows) = 0
    THEN [NoDash EXCEPT !.called = TRUE, !.success = TRUE, !.requested = period]
    ELSE Only({[charts_of(periods, current_period, current_rows,
                          limit(by_net_margin_desc(current_rows, 1..Len(current_rows), scan), 7))
                   EXCEPT !.requested = period,
                          !.total_stores = Len(store_data(current_rows, scan))] :
                  periods \in {available_periods(chart_rows)},
                  current_period \in {IF period # <<>> THEN period
                                      ELSE available_periods(chart_rows)[1]},
                  current_rows \in {rows_of_period(chart_rows,
                                        IF period # <<>> THEN period
                                        ELSE available_periods(chart_rows)[1])}})

\* the stores of the rows the dashboard specifications draw
store_centro == <<"t","i","e","n","d","a","_","c","e","n","t","r","o">>
store_norte == <<"t","i","e","n","d","a","_","n","o","r","t","e">>

\* the row extraction writes for a store with these amounts
summary_row(store_id, period, total_sales, cost_of_sales, operating_expenses, net_profit) ==
    new_summary([store_id |-> store_id, store_name |-> str_upper(store_id),
                 total_sales |-> total_sales, cost_of_sales |-> cost_of_sales,
                 operating_expenses |-> operating_expenses, labor_cost |-> 0,
                 rent |-> 0, utilities |-> 0, net_profit |-> net_profit],
                period, 1)

\* the amounts of the rows SpecCharts draws
SalesAmounts == {2734, 2735}
ExpenseAmounts == {0, 2734, 3999}

ChartRows ==
    {summary_row(store_centro, period, total_sales, 0, operating_expenses, 0) :
        period \in {period_P11, period_P12}, total_sales \in SalesAmounts,
        operating_expenses \in ExpenseAmounts}

InitCharts ==
    /\ documents = EmptyFcn
    /\ raw_data = EmptyFcn
    /\ summaries = <<>>
    /\ next_doc_id = 1
    /\ last_op = NoOp
    /\ IdleExtract /\ IdleFirebase /\ IdleUpload /\ IdleConcurrent /\ IdleAi /\ IdleLimiter
    /\ chart_rows \in UNION {[1..n -> ChartRows] : n \in 0..MaxStores}
    /\ dash = NoDash

GetChartsData == \E period \in {<<>>, period_P11, period_P12}, scan \in ScanOrders :
    /\ ~dash.called
    /\ dash' = get_dashboard_charts_data(period, scan)
    /\ UNCHANGED <<documents, raw_data, summaries, next_doc_id, last_op, sheet_in,
                   extract_out, fb_docs, fb_last, fb_issued, chart_rows, up, txn, observed, ai_call, limiter>>

NextCharts == GetChartsData

SpecCharts == InitCharts /\ [][NextCharts]_vars

target_rows == rows_of_period(chart_rows, dash.current_period)

\* C8: for a target period that has exactly one store summary, or whose
\* stores all have the same total_sales, the endpoint succeeds and returns
\* correlation_coefficient = 0.0.
C8_DegenerateCorrelationIsZero ==
    (/\ dash.called /\ dash.has_data
     /\ Len(target_rows) >= 1
     /\ \A i \in 1..Len(target_rows), j \in 1..Len(target_rows) :
           target_rows[i].total_sales = target_rows[j].total_sales)
        => (dash.success /\ dash.correlation_coefficient = 0)

-----------------------------------------------------------------------------
(* POST /upload on workbooks and with the classifier: SpecUpload uploads up to
   MaxDocs files and keeps the last request with its response. *)

\* the most sheets of a workbook
MaxSheets == 2

\* a sheet without cells
sheet_empty == [name |-> <<"V","a","c","i","a">>, df |-> [columns |-> <<>>, rows |-> <<>>]]

\* a sheet with a header and rows that hold no value
sheet_blank_rows ==
    [name |-> <<"N","o","t","a","s">>,
     df |-> [columns |-> << <<"P","1","1">>, <<"T","1">> >>,
             rows |-> << <<None, None>>, <<None, None>> >>]]

\* a sheet with a blank row between two rows of data
sheet_data ==
    [name |-> sheet_name_1,
     df |-> [columns |-> << <<"P","1","1">>, <<"T","1">> >>,
             rows |-> << <<None, Str(<<"T","i","e","n","d","a"," ","C","e","n","t","r","o">>)>>,
                         <<None, None>>,
                         <<Str(<<"I","N","G","R","E","S","O","S">>), Num(10000)>> >>]]

\* a sheet that shares one column (after strip) with sheet_data and has its own
sheet_more ==
    [name |-> <<"H","o","j","a","2">>,
     df |-> [columns |-> << <<" ","P","1","1"," ">>, <<"T","2">> >>,
             rows |-> << <<Str(<<"R","E","N","T","A">>), Num(500)>> >>]]

SheetCatalog == {sheet_empty, sheet_blank_rows, sheet_data, sheet_more}

Workbooks == UNION {[1..n -> SheetCatalog] : n \in 1..MaxSheets}

\* a file name whose extension is not allowed
fn_notes_txt == <<"n","o","t","a","s",".","t","x","t">>

\* the requests SpecUpload makes: a CSV file holds one frame, a PDF none
UploadRequests ==
    LET spreadsheets ==
            {r \in [filename : {fn_statement_P11, fn_statement_lower}, sheets : Workbooks,
                    skip_ai : BOOLEAN, ai : AiOutcomes] :
                /\ (r.filename = fn_statement_lower => Len(r.sheets) = 1)
                /\ (r.skip_ai => r.ai = "no_client")}
        others ==
            [filename : {fn_statement_pdf, fn_notes_txt}, sheets : {<<>>},
             skip_ai : {TRUE}, ai : {"no_client"}]
    IN  spreadsheets \cup others

\* the database holds one document, a PDF uploaded before
InitUpload ==
    /\ documents = (1 :> new_document(fn_statement_pdf))
    /\ raw_data = (1 :> NoRawJson)
    /\ summaries = <<>>
    /\ next_doc_id = 2
    /\ last_op = Op("upload", {})
    /\ IdleExtract /\ IdleFirebase /\ IdleCharts /\ IdleUpload /\ IdleConcurrent /\ IdleAi /\ IdleLimiter

UploadWorkbook == \E r \in UploadRequests :
    /\ upload_file(r.filename, r.sheets, r.skip_ai, r.ai)
    /\ up' = [called |-> TRUE, filename |-> r.filename, sheets |-> r.sheets,
              skip_ai |-> r.skip_ai, ai |-> r.ai,
              doc_id |-> IF next_doc_id' = next_doc_id THEN 0 ELSE next_doc_id,
              response |-> upload_result(r.filename, r.sheets, r.skip_ai, r.ai)]
    /\ UNCHANGED <<sheet_in, extract_out, fb_docs, fb_last, fb_issued, chart_rows, dash,
                   txn, observed, ai_call, limiter>>

NextUpload == UploadWorkbook

SpecUpload == InitUpload /\ [][NextUpload]_vars

-----------------------------------------------------------------------------
(* Claims about POST /upload, checked under SpecUpload *)

is_spreadsheet(filename) ==
    \E ext \in allowed_extensions \ {ext_pdf} : EndsWith(str_lower(filename), ext)

\* the sheets of a request that upload_file reads
sheets_read(u) ==
    IF EndsWith(str_lower(u.filename), ext_csv) THEN {1} ELSE 1..Len(u.sheets)

\* a sheet without columns or without a row that holds a value
is_skipped(sheet) ==
    \/ Len(sheet.df.columns) = 0
    \/ \A r \in 1..Len(sheet.df.rows) :
          \A c \in 1..Len(sheet.df.rows[r]) : sheet.df.rows[r][c] = None

\* C11: when every sheet of an uploaded spreadsheet is skipped as empty,
\* upload_file rejects the upload and persists nothing: the step leaves no
\* new Document and no new raw-data record.
C11_AllSkippedRejected ==
    [][(/\ up'.called
        /\ is_spreadsheet(up'.filename)
        /\ \A k \in sheets_read(up') : is_skipped(up'.sheets[k]))
          => (/\ up'.response.status >= 400
              /\ up'.doc_id = 0
              /\ documents' = documents
              /\ raw_data' = raw_data)]_vars

\* a workbook of two skipped sheets, one without cells and one with blank rows,
\* has been rejected
C11_Witness ==
    /\ up.called
    /\ up.filename = fn_statement_P11
    /\ up.sheets = <<sheet_empty, sheet_blank_rows>>
    /\ up.response.status = 500
    /\ up.doc_id = 0

\* the classifier was asked and did not answer as asked: no client, an error,
\* an answer that is no JSON or JSON of another shape
classifier_failed(u) ==
    /\ ~u.skip_ai
    /\ u.ai \in {"no_client", "api_error", "not_json", "dict_without_fields", "list"}

\* C12: whenever the classifier is unavailable, fails or answers malformed, the
\* upload of a spreadsheet with data still stores the document, and
\* detected_fields maps every column to itself with type "text".
C12_ClassifierFailureFallsBack ==
    (/\ up.called
     /\ is_spreadsheet(up.filename)
     /\ \E k \in sheets_read(up) : ~is_skipped(up.sheets[k])
     /\ classifier_failed(up))
        => (/\ up.response.status = 200
            /\ up.doc_id \in DOMAIN documents
            /\ up.response.ai_analysis.detected_fields
                  = identity_fields(up.response.data.columns))

RECURSIVE source_rows(_, _)
\* the rows that hold a value, of the first k sheets that are not skipped, each
\* with the columns and the name of its sheet
source_rows(u, k) ==
    IF k = 0 THEN <<>>
    ELSE LET sh == u.sheets[k]
             rows == SelectSeq(sh.df.rows, LAMBDA row : \E c \in 1..Len(row) : row[c] # None)
         IN  source_rows(u, k - 1) \o
             (IF k \notin sheets_read(u) \/ is_skipped(sh) THEN <<>>
              ELSE [i \in 1..Len(rows) |->
                      [name |-> sh.name, columns |-> sh.df.columns, row |-> rows[i]]])

\* the stored rows are the source rows, cell by cell, and each carries the name
\* of its sheet
holds_tagged_rows(data, src) ==
    /\ Len(data.rows) = Len(src)
    /\ \A i \in 1..Len(src) :
          /\ \A c \in 1..Len(src[i].columns) :
                row_get(data.columns, data.rows[i], str_strip(src[i].columns[c])) = src[i].row[c]
          /\ \E c \in 1..Len(data.columns) :
                data.rows[i][c].t = "str" /\ data.rows[i][c].s \in {src[i].name, csv_sheet_name}
                /\ data.columns[c] = hoja_origen

\* C17: every successful spreadsheet upload creates exactly one Document, which
\* holds the rows of all non-empty sheets, every stored row carrying the name
\* of the sheet it came from.
C17_OneDocumentRowsTagged ==
    [][(/\ up'.called
        /\ is_spreadsheet(up'.filename)
        /\ up'.response.status = 200)
          => (/\ DOMAIN documents' = DOMAIN documents \cup {up'.doc_id}
              /\ up'.doc_id \notin DOMAIN documents
              /\ DOMAIN raw_data' = DOMAIN raw_data \cup {up'.doc_id}
              /\ holds_tagged_rows(raw_data'[up'.doc_id], source_rows(up', Len(up'.sheets))))]_vars

-----------------------------------------------------------------------------
(* The dashboard's summary, compareChart and rankingChart: SpecDashboard draws
   rows as extraction writes them, for periods 9 and 10, and calls the
   endpoint once. *)

fn_statement_P9 == <<"E","S","T","A","D","O"," ","D","E"," ","R","E","S","U","L","T","A","D","O","S"," ","P","9",".","x","l","s","x">>
fn_statement_P10 == <<"E","S","T","A","D","O"," ","D","E"," ","R","E","S","U","L","T","A","D","O","S"," ","P","1","0",".","x","l","s","x">>

\* the labels extraction gives the rows of these files
period_P9 == period_label(fn_statement_P9)
period_P10 == period_label(fn_statement_P10)

\* the stores and amounts of the rows SpecDashboard draws: total_sales,
\* cost_of_sales, operating_expenses, net_profit
DashAmounts ==
    { <<store_centro, 60, 24, 18, 12>>,
      <<store_norte, 120, 30, 30, 18>>,
      <<store_centro, 60, 30, 12, 6>>,
      <<store_norte, 24, 12, 18, -6>>,
      <<store_centro, 0, 0, 6, -6>>,
      <<store_norte, 96, 36, 24, 12>> }

DashRows ==
    {summary_row(a[1], period, a[2], a[3], a[4], a[5]) :
        a \in DashAmounts, period \in {period_P9, period_P10}}

InitDashboard ==
    /\ documents = EmptyFcn
    /\ raw_data = EmptyFcn
    /\ summaries = <<>>
    /\ next_doc_id = 1
    /\ last_op = NoOp
    /\ IdleExtract /\ IdleFirebase /\ IdleUpload /\ IdleConcurrent /\ IdleAi /\ IdleLimiter
    /\ chart_rows \in UNION {[1..n -> DashRows] : n \in 0..MaxStores}
    /\ dash = NoDash

GetDashboard == \E period \in {<<>>, period_P9, period_P10}, scan \in ScanOrders :
    /\ ~dash.called
    /\ dash' = get_dashboard_charts_data(period, scan)
    /\ UNCHANGED <<documents, raw_data, summaries, next_doc_id, last_op, sheet_in,
                   extract_out, fb_docs, fb_last, fb_issued, chart_rows, up, txn, observed, ai_call, limiter>>

NextDashboard == GetDashboard

SpecDashboard == InitDashboard /\ [][NextDashboard]_vars

-----------------------------------------------------------------------------
(* Claims about the dashboard, checked under SpecDashboard *)

RECURSIVE to_int(_)
\* int(s) for a string of digits
to_int(s) ==
    IF s = <<>> THEN 0 ELSE 10 * to_int(SubSeq(s, 1, Len(s) - 1)) + (IndexIn(s[Len(s)], digits) - 1)

\* the number of the period of a label "2025-P<n>"
period_number(label) == to_int(re_search_P_digits(label))

\* C13: called without a period, the endpoint takes as target the most recent
\* period that has summaries: with 2025-P9 and 2025-P10 stored, period 10.
C13_DefaultIsMostRecent ==
    (dash.called /\ dash.has_data /\ dash.requested = <<>>)
        => \A i \in 1..Len(chart_rows) :
              period_number(chart_rows[i].period) <= period_number(dash.current_period)

\* the totals of the three compared columns over rows
compared_totals(rows) ==
    << sum_of(rows, "total_sales", Len(rows)),
       sum_of(rows, "operating_expenses", Len(rows)),
       sum_of(rows, "net_profit", Len(rows)) >>

\* (current - previous) / previous * 100 for previous # 0, in tenths
relative_change(current, previous) ==
    IF previous > 0 THEN round_1(Ratio((current - previous) * 100, previous))
    ELSE round_1(Ratio((previous - current) * 100, -previous))

\* C14: for each compared total (sales, expenses, profit) the change is
\* (current - previous) / previous * 100 for every previous other than 0,
\* negative ones included, and 0 when previous is 0.
C14_ChangeIsRelativeDifference ==
    (dash.called /\ dash.has_data /\ dash.compare)
        => \A k \in 1..3 :
              LET current == compared_totals(target_rows)[k]
                  previous == compared_totals(rows_of_period(chart_rows, dash.previous_period))[k]
              IN  dash.change_percent[k] =
                     IF previous = 0 THEN 0 ELSE relative_change(current, previous)

\* x / total_sales * 100 in tenths, 0 when total_sales <= 0
margin_of_totals(x, total_sales) ==
    IF total_sales > 0 THEN round_1(Ratio(x * 100, total_sales)) ELSE 0

\* C15: the gross margin and the net margin of the summary are recomputed from
\* the totals of the period over all stores: (sum total_sales - sum
\* cost_of_sales) / sum total_sales * 100 and sum net_profit / sum total_sales
\* * 100, 0 when sum total_sales <= 0; neither averages per-store margins.
C15_MarginsFromTotals ==
    (dash.called /\ dash.has_data)
        => LET sales == sum_of(target_rows, "total_sales", Len(target_rows))
               cost == sum_of(target_rows, "cost_of_sales", Len(target_rows))
               profit == sum_of(target_rows, "net_profit", Len(target_rows))
           IN  /\ dash.gross_margin = margin_of_totals(sales - cost, sales)
               /\ dash.net_margin = margin_of_totals(profit, sales)

\* the status the thresholds 20, 15 and 10 give a margin
status_by_threshold(margin) ==
    IF ~RatioLess(margin, Ratio(20, 1)) THEN "excellent"
    ELSE IF ~RatioLess(margin, Ratio(15, 1)) THEN "good"
    ELSE IF ~RatioLess(margin, Ratio(10, 1)) THEN "warning"
    ELSE "critical"

\* the ways to match the entries of the ranking with the rows of the target
\* period, one row per entry
ranking_matches ==
    {f \in [1..Len(dash.ranking) -> 1..Len(target_rows)] :
        /\ \A k, l \in 1..Len(dash.ranking) : f[k] = f[l] => k = l
        /\ \A k \in 1..Len(dash.ranking) :
              /\ dash.ranking[k] = target_rows[f[k]].store_id
              /\ dash.margins[k] = round_1(target_rows[f[k]].net_margin)}

\* C16: the ranking lists the stores of the target period (at most 7) in
\* descending order of net_margin, each with the status of its margin:
\* excellent from 20, good from 15, warning from 10, critical below.
C16_RankingDescendingWithStatus ==
    (dash.called /\ dash.has_data)
        => /\ Len(dash.ranking) = (IF Len(target_rows) > 7 THEN 7 ELSE Len(target_rows))
           /\ \E f \in ranking_matches :
                 /\ \A k \in 1..(Len(dash.ranking) - 1) :
                       ~RatioLess(target_rows[f[k]].net_margin, target_rows[f[k + 1]].net_margin)
                 /\ \A k \in 1..Len(dash.ranking) :
                       dash.status[k] = status_by_threshold(target_rows[f[k]].net_margin)

\* a ranking of three stores: one at 20 exactly, one at 15 exactly, one at a loss
C16_Witness ==
    /\ dash.called /\ dash.has_data
    /\ dash.margins = <<200, 150, -250>>
    /\ dash.status = <<"excellent", "good", "critical">>

-----------------------------------------------------------------------------
(* The update branch of the reconciler, checked under Spec *)

\* the fields the claim names: store_name, the numeric fields, both margins
\* and document_id
summary_fields ==
    {"store_name", "total_sales", "cost_of_sales", "gross_profit", "gross_margin",
     "operating_expenses", "labor_cost", "rent", "utilities", "net_profit",
     "net_margin", "document_id"}

\* the rows an extraction of document d would update, with the store it
\* updates each from: <<row, store_info>>
updates_of(d, scan) ==
    LET stores == extract_stores(raw_data[d])
        period == period_label(documents[d].filename)
    IN  {<<query_existing(summaries, stores[k].store_id, period, scan), stores[k]>> :
            k \in {j \in 1..Len(stores) :
                      query_existing(summaries, stores[j].store_id, period, scan) # 0}}

\* C20: when extraction finds an existing row for (store_id, period), the row
\* after the update has the field values (store_name, numeric fields, margins,
\* document_id) of the row that would have been inserted had none existed.
C20_UpdateEqualsInsert ==
    \A d \in DOMAIN documents :
        (is_statement(documents[d].filename) /\ has_rows(d)) =>
            \A scan \in ScanOrders : \A u \in updates_of(d, scan) :
                \A f \in summary_fields :
                    update_summary(summaries[u[1]], u[2], d)[f]
                        = new_summary(u[2], period_label(documents[d].filename), d)[f]

-----------------------------------------------------------------------------
(* Requests served at the same time: extractions and dashboard reads of
   separate server processes against one database *)

\* the requests that run an extraction
Requests == {1, 2}

\* the dashboard queries one behaviour makes
MaxReads == 2

\* a P12 statement of one store, "Tienda Centro", with its sales and net profit
sheet_centro(total_sales, net_profit) ==
    [columns |-> << <<"P","1","2">>, <<"T","1">> >>,
     rows |-> <<
        << None, Str(<<"T","i","e","n","d","a"," ","C","e","n","t","r","o">>) >>,
        << Str(<<"I","N","G","R","E","S","O","S">>), Num(total_sales) >>,
        << Str(<<"U","T","I","L","I","D","A","D"," ","N","E","T","A">>), Num(net_profit) >> >>]

\* the statement already in the vault, one that revises its sales and one
\* that revises its net profit
sheet_first == sheet_centro(96, 12)
sheet_sales_revised == sheet_centro(60, 12)
sheet_profit_revised == sheet_centro(96, 6)

\* what POST /upload stored for a workbook with this one sheet
stored_rows(df) == uploaded_data(fn_statement_P12, << [name |-> sheet_name_1, df |-> df] >>)

\* a database session that has not started: the request's position, the
\* document it extracts, the stores and period it found, the store it is at,
\* the row its query found, the rows it has loaded (as loaded and as assigned
\* since) and the rows it has added
NoSession ==
    [pc |-> "idle", doc_id |-> 0, stores |-> <<>>, period |-> <<>>, k |-> 0,
     existing |-> 0, loaded |-> EmptyFcn, added |-> <<>>]

\* the entries of the log: a commit with the table it left, or a dashboard
\* query with the rows it returned; rows are <<id, row>>
rows_with_id(table, ids) == {<<i, table[i]>> : i \in ids}
Committed(t, table) == [kind |-> "commit", request |-> t, rows |-> rows_with_id(table, 1..Len(table))]
Read(rows) == [kind |-> "read", request |-> 0, rows |-> rows]

\* the `for store_name, store_info in stores_data.items()` loop moving on:
\* the next store's query, or db.commit() after the last one
next_store(s) ==
    IF s.k < Len(s.stores)
    THEN [s EXCEPT !.pc = "query", !.k = @ + 1, !.existing = 0]
    ELSE [s EXCEPT !.pc = "commit", !.existing = 0]

\* POST /upload/confirm up to the loop of the extraction: the document is
\* confirmed and committed, the extraction reads it and finds its stores
confirm_begin(t, d, period) ==
    /\ txn[t].pc = "idle"
    /\ d \in DOMAIN documents
    /\ documents' = [documents EXCEPT ![d].status = "confirmed", ![d].period = period]
    /\ txn' = [txn EXCEPT ![t] =
                 IF is_statement(documents[d].filename) /\ has_rows(d)
                 THEN Only({next_store([NoSession EXCEPT
                                           !.doc_id = d, !.stores = stores,
                                           !.period = period_label(documents[d].filename)]) :
                               stores \in {extract_stores(raw_data[d])}})
                 ELSE [NoSession EXCEPT !.pc = "done", !.doc_id = d]]
    /\ UNCHANGED <<summaries, observed>>

\* the object a query hands back for row i: the one the session holds if it
\* has loaded the row before, else the committed row
loaded_row(s, table, i) ==
    IF i \in DOMAIN s.loaded THEN s.loaded[i]
    ELSE [committed |-> table[i], current |-> table[i]]

\* `existing = db.query(MonthlySummary).filter(...).first()` for the store the
\* loop is at, against the committed rows; `db.add(summary)` when there is none
query_step(t, scan) ==
    /\ txn[t].pc = "query"
    /\ \E s \in {txn[t]} :
       \E existing \in {query_existing(summaries, s.stores[s.k].store_id, s.period, scan)} :
          txn' = [txn EXCEPT ![t] =
                    IF existing # 0
                    THEN [s EXCEPT !.pc = "update", !.existing = existing,
                                   !.loaded = (existing :> loaded_row(s, summaries, existing)) @@ @]
                    ELSE next_store([s EXCEPT
                            !.added = Append(@, new_summary(s.stores[s.k], s.period, s.doc_id))])]
    /\ UNCHANGED <<documents, summaries, observed>>

\* the assignments of the update branch in two runs: total_sales to
\* gross_margin, operating_expenses to document_id
first_assignments == {"total_sales", "cost_of_sales", "gross_profit", "gross_margin"}
last_assignments ==
    {"operating_expenses", "labor_cost", "rent", "utilities", "net_profit", "net_margin",
     "document_id"}

\* the row object after the assignments to these attributes
assigned(row, store_info, doc_id, attrs) ==
    \* the row with every assignment made, then the attributes asked for
    Only({[f \in DOMAIN row |-> IF f \in attrs THEN all[f] ELSE row[f]] :
             all \in {update_summary(row, store_info, doc_id)}})

\* the session of request t after it assigned these attributes of the row
\* its query found
assign(s, attrs) ==
    [s EXCEPT !.loaded[s.existing].current = assigned(@, s.stores[s.k], s.doc_id, attrs)]

\* existing.total_sales = ... to existing.gross_margin = ...
update_step(t) ==
    /\ txn[t].pc = "update"
    /\ txn' = [txn EXCEPT ![t] = [assign(@, first_assignments) EXCEPT !.pc = "update_rest"]]
    /\ UNCHANGED <<documents, summaries, observed>>

\* existing.operating_expenses = ... to existing.document_id = doc_id
update_rest_step(t) ==
    /\ txn[t].pc = "update_rest"
    /\ txn' = [txn EXCEPT ![t] = next_store(assign(@, last_assignments))]
    /\ UNCHANGED <<documents, summaries, observed>>

\* the table after the flush of a session: an UPDATE by primary key of each
\* loaded row that sets the attributes whose value is not the loaded one, and
\* an INSERT of each added row
flushed(table, s) ==
    [i \in 1..Len(table) |->
        IF i \in DOMAIN s.loaded
        THEN [f \in DOMAIN table[i] |->
                 IF s.loaded[i].current[f] # s.loaded[i].committed[f]
                 THEN s.loaded[i].current[f] ELSE table[i][f]]
        ELSE table[i]] \o s.added

\* db.commit(): the flush and the COMMIT, then the handler returns
commit_step(t) ==
    /\ txn[t].pc = "commit"
    /\ summaries' = flushed(summaries, txn[t])
    /\ txn' = [txn EXCEPT ![t].pc = "done"]
    /\ observed' = Append(observed, Committed(t, summaries'))
    /\ UNCHANGED documents

\* read_committed that also returns what the sessions in flight have
\* assigned so far
read_uncommitted(table, sessions) ==
    [i \in 1..Len(table) |->
        IF \E t \in DOMAIN sessions : sessions[t].pc # "done" /\ i \in DOMAIN sessions[t].loaded
        THEN sessions[CHOOSE t \in DOMAIN sessions :
                         sessions[t].pc # "done" /\ i \in DOMAIN sessions[t].loaded].loaded[i].current
        ELSE table[i]]

\* the rows a query of another session sees: the committed ones
read_committed(table, sessions) == table

\* the rows the query of totals_current reads:
\* db.query(func.sum(...), ...).filter(MonthlySummary.period == current_period)
totals_current_rows(period) ==
    Only({rows_with_id(visible, {i \in 1..Len(visible) : visible[i].period = period}) :
             visible \in {read_committed(summaries, txn)}})

reads_made == Cardinality({j \in DOMAIN observed : observed[j].kind = "read"})

\* a query of GET /api/charts/dashboard
dashboard_query(period) ==
    /\ reads_made < MaxReads
    /\ observed' = Append(observed, Read(totals_current_rows(period)))
    /\ UNCHANGED <<documents, summaries, txn>>

\* documents 2 and 3 wait for their confirmation; the statement in the vault
\* has been extracted or not
InitConcurrent ==
    /\ documents = (1 :> [new_document(fn_statement_P12) EXCEPT !.status = "confirmed"])
                   @@ (2 :> new_document(fn_statement_P12))
                   @@ (3 :> new_document(fn_statement_P12))
    /\ raw_data = (1 :> stored_rows(sheet_first)) @@ (2 :> stored_rows(sheet_sales_revised))
                  @@ (3 :> stored_rows(sheet_profit_revised))
    /\ summaries \in {<<>>, extract_financial_data_to_summaries(
                                <<>>, 1, fn_statement_P12, stored_rows(sheet_first), "asc").table}
    /\ next_doc_id = 4
    /\ last_op = Op("upload", {})
    /\ txn = [t \in Requests |-> NoSession]
    /\ observed = << Committed(0, summaries) >>
    /\ IdleExtract /\ IdleFirebase /\ IdleCharts /\ IdleUpload /\ IdleAi /\ IdleLimiter

conc_idle_vars ==
    <<raw_data, next_doc_id, last_op, sheet_in, extract_out, fb_docs, fb_last, fb_issued,
      chart_rows, dash, up, ai_call, limiter>>

ConfirmBegin == \E t \in Requests, d \in {2, 3}, period \in ConfirmPeriods :
    confirm_begin(t, d, period) /\ UNCHANGED conc_idle_vars
QueryStep == \E t \in Requests, scan \in ScanOrders : query_step(t, scan) /\ UNCHANGED conc_idle_vars
UpdateStep == \E t \in Requests : update_step(t) /\ UNCHANGED conc_idle_vars
UpdateRestStep == \E t \in Requests : update_rest_step(t) /\ UNCHANGED conc_idle_vars
CommitStep == \E t \in Requests : commit_step(t) /\ UNCHANGED conc_idle_vars
DashboardQuery == dashboard_query(period_P12) /\ UNCHANGED conc_idle_vars

NextConcurrent ==
    \/ ConfirmBegin
    \/ QueryStep
    \/ UpdateStep
    \/ UpdateRestStep
    \/ CommitStep
    \/ DashboardQuery

SpecConcurrent == InitConcurrent /\ [][NextConcurrent]_vars

\* the keys (store_id, period) the extraction of request t writes
targets(t) == {<<txn[t].stores[k].store_id, txn[t].period>> : k \in DOMAIN txn[t].stores}

\* the rows of the table with this key
rows_of_key(key) ==
    {i \in 1..Len(summaries) : summaries[i].store_id = key[1] /\ summaries[i].period = key[2]}

\* the row holds, in every field an extraction writes, what request t extracted
written_by(row, t) ==
    \E k \in DOMAIN txn[t].stores :
        /\ txn[t].stores[k].store_id = row.store_id
        /\ \A f \in summary_fields :
              row[f] = new_summary(txn[t].stores[k], txn[t].period, txn[t].doc_id)[f]

both_done == \A t \in Requests : txn[t].pc = "done"

\* C18: when two extractions that target the same (store_id, period) have run
\* concurrently, the table holds exactly one row for the key, and all the
\* fields of that row come from one of the two extractions.
C18_WritesSerializedPerKey ==
    both_done =>
        \A key \in targets(1) \cap targets(2) :
            /\ Cardinality(rows_of_key(key)) = 1
            /\ \A i \in rows_of_key(key) : \E t \in Requests : written_by(summaries[i], t)

\* the table the last commit before log entry j left
last_commit_before(j) ==
    observed[SetMax({c \in 1..(j - 1) : observed[c].kind = "commit"})].rows

-----------------------------------------------------------------------------
(* The conditions of the classification rules, checked under SpecExtract *)

\* the rules whose condition holds for a concept
rules_holding(concept) == {n \in DOMAIN rule_field : rule_holds(n, concept)}

\* the concepts of the rows of a sheet that reach the chain: the row has a
\* concept that is no sheet label
classified_concepts(data) ==
    {c \in {first_col_val(data.columns, data.rows[r]) : r \in 2..Len(data.rows)} :
        c # <<>> /\ ~Contains(<<"E","D","O"," ","R","E","S">>, c)}

\* C21 as stated: for every concept the chain classifies, the rules whose
\* condition holds all write one field (at most one rule holds, the two rent
\* rules counted as one), so any order of evaluation assigns the same field.
C21_RulesMutuallyExclusive ==
    extract_out.done =>
        \A c \in classified_concepts(sheet_in) :
            Cardinality({rule_field[n] : n \in rules_holding(c)}) <= 1

\* C21 amended: the conditions overlap, and the chain assigns the value to the
\* field of the first rule, in the order of the source, whose condition holds
\* (to no field when none holds).
C21_FirstRuleInSourceOrder ==
    extract_out.done =>
        \A c \in classified_concepts(sheet_in) :
            first_rule(c) = IF rules_holding(c) = {} THEN "none"
                            ELSE rule_field[SetMin(rules_holding(c))]

\* C21 witness: the sheet holds "GASTOS DE NOMINA", for which the labor rule
\* and the utilities rule both hold, and a store has its value as labor_cost
C21_Witness ==
    /\ extract_out.done
    /\ \E c \in classified_concepts(sheet_in) :
          /\ {4, 7} \subseteq rules_holding(c)
          /\ first_rule(c) = "labor_cost"
    /\ \E k \in 1..Len(extract_out.stores) : extract_out.stores[k].labor_cost = 400

-----------------------------------------------------------------------------
(* sync with clean=true, checked under Spec *)

\* the documents a sync extracts: confirmed statements
confirmed_statements ==
    {d \in DOMAIN documents :
        documents[d].status = "confirmed" /\ is_statement(documents[d].filename)}

\* the row holds what the extraction of document d computes for one of its
\* stores (the store's name aside, which an update leaves as it was)
extracted_from(row, d) ==
    /\ has_rows(d)
    /\ \E stores \in {extract_stores(raw_data[d])} :
       \E k \in 1..Len(stores) :
          \E new \in {new_summary(stores[k], period_label(documents[d].filename), d)} :
             /\ row.store_id = new.store_id
             /\ row.period = new.period
             /\ \A f \in summary_fields \ {"store_name"} : row[f] = new[f]

\* a row of the table has the key of each store of document d
every_store_written(table, d) ==
    has_rows(d) =>
        \E stores \in {extract_stores(raw_data[d])} :
           \A k \in 1..Len(stores) :
              \E i \in 1..Len(table) :
                 /\ table[i].store_id = stores[k].store_id
                 /\ table[i].period = period_label(documents[d].filename)

\* the step is a sync with clean=true
is_clean_sync == last_op'.op = "sync" /\ last_op'.clean_scan # "no"

\* C22: after a sync with clean=true the table holds exactly the rows of the
\* extraction of the confirmed statements: every row holds the values that the
\* extraction of a confirmed, existing statement computes and carries its id
\* (so no row from before the run survives unless the run writes it again),
\* and every store of every confirmed statement has its row.
C22_CleanSyncRebuilds ==
    [][is_clean_sync =>
          /\ \A i \in 1..Len(summaries') :
                /\ summaries'[i].document_id \in confirmed_statements
                /\ extracted_from(summaries'[i], summaries'[i].document_id)
          /\ \A d \in confirmed_statements : every_store_written(summaries', d)]_vars

\* C22 witness: a clean sync has rebuilt the table from a confirmed statement
\* while the database holds a statement with rows that is not confirmed
C22_Witness ==
    /\ last_op.op = "sync"
    /\ last_op.clean_scan # "no"
    /\ summaries # <<>>
    /\ \E d \in DOMAIN documents :
          documents[d].status # "confirmed" /\ is_statement(documents[d].filename) /\ has_rows(d)

-----------------------------------------------------------------------------
(* The reconciler run on a table whose comparison columns hold values *)

\* the most rows the table holds before the reconciler runs
MaxSummaries == 2

\* a value of a nullable Float column
Float(v) == [isnull |-> FALSE, v |-> v]

\* what the columns sales_vs_previous and profit_vs_previous may hold
ComparisonValues == {Null, Float(5), Float(-3)}

\* the rows monthly_summaries may hold before the run: written by the
\* extraction of document 1, the comparison columns filled in or not
StoredSummaries ==
    {[summary_row(store_id, period, 96, 0, 0, 12) EXCEPT
         !.sales_vs_previous = sales_vs, !.profit_vs_previous = profit_vs] :
        store_id \in {store_centro, store_norte}, period \in {period_P11, period_P12},
        sales_vs \in ComparisonValues, profit_vs \in ComparisonValues}

\* three statements of period 12 for "Tienda Centro", all confirmed
InitReconciler ==
    /\ documents = [d \in 1..3 |-> [new_document(fn_statement_P12) EXCEPT !.status = "confirmed"]]
    /\ raw_data = (1 :> stored_rows(sheet_first)) @@ (2 :> stored_rows(sheet_sales_revised))
                  @@ (3 :> stored_rows(sheet_profit_revised))
    /\ summaries \in UNION {[1..n -> StoredSummaries] : n \in 0..MaxSummaries}
    /\ next_doc_id = 4
    /\ last_op = NoOp
    /\ IdleExtract /\ IdleFirebase /\ IdleCharts /\ IdleUpload /\ IdleConcurrent /\ IdleAi /\ IdleLimiter

\* extract_financial_data_to_summaries(doc_id, db), as POST /upload/confirm
\* calls it for a statement
Reconcile == \E d \in {2, 3}, scan \in ScanOrders :
    /\ summaries' = extract_doc(summaries, d, scan)
    /\ last_op' = Op("confirm", {documents[d].status})
    /\ UNCHANGED <<documents, raw_data, next_doc_id, sheet_in, extract_out, fb_docs,
                   fb_last, fb_issued, chart_rows, dash, up, txn, observed, ai_call, limiter>>

NextReconciler == Reconcile

SpecReconciler == InitReconciler /\ [][NextReconciler]_vars

comparison_fields == {"sales_vs_previous", "profit_vs_previous"}

\* C23: the reconciler never writes sales_vs_previous or profit_vs_previous:
\* a row it inserts has both unset, and a row that existed before the run,
\* updated or not, holds in both what it held before.
C23_ComparisonFieldsUntouched ==
    [][\A i \in 1..Len(summaries') : \A f \in comparison_fields :
          summaries'[i][f] = IF i <= Len(summaries) THEN summaries[i][f] ELSE Null]_vars

\* C23 witness: a row whose comparison columns were filled in has been updated
\* by the extraction of document 2 or 3 and still holds them
C23_Witness ==
    \E i \in 1..Len(summaries) :
        /\ summaries[i].document_id \in {2, 3}
        /\ summaries[i].sales_vs_previous = Float(5)
        /\ summaries[i].profit_vs_previous = Float(-3)

-----------------------------------------------------------------------------
(* call_ai_with_fallback *)

\* the two providers the helper knows
Providers == {"openai", "anthropic"}

\* what AI_PROVIDER may hold: the environment and POST /settings take any string
ProviderSettings == {"openai", "anthropic", "gemini"}

\* what a provider's API does with a request: it answers, it raises, or it
\* answers with no choice or content block (the subscript [0] raises IndexError)
ApiOutcomes == {"ok", "error", "empty"}

\* the order that always begins with openai
providers_openai_first(AI_PROVIDER, anthropic_client) == <<"openai", "anthropic">>

\* `if AI_PROVIDER == "anthropic" and anthropic_client: ... else: ...`
providers(AI_PROVIDER, anthropic_client) ==
    IF AI_PROVIDER = "anthropic" /\ anthropic_client
    THEN <<"anthropic", "openai">>
    ELSE <<"openai", "anthropic">>

\* the client of a provider is set
client_of(cfg, provider_name) ==
    IF provider_name = "openai" THEN cfg.openai_client ELSE cfg.anthropic_client

RECURSIVE try_providers(_, _, _, _)
\* `for provider_name, client in providers` from position k on: a provider
\* without client is passed over, the first whose call and whose reading of the
\* response raise nothing returns, and HTTPException(503) after the last
try_providers(cfg, order, k, attempts) ==
    IF k > Len(order)
    THEN [status |-> 503, provider |-> "none", attempts |-> attempts]
    ELSE IF ~client_of(cfg, order[k])
    THEN try_providers(cfg, order, k + 1, attempts)
    ELSE IF cfg.api[order[k]] = "ok"
    THEN [status |-> 200, provider |-> order[k], attempts |-> Append(attempts, order[k])]
    ELSE try_providers(cfg, order, k + 1, Append(attempts, order[k]))

call_ai_with_fallback(cfg) ==
    try_providers(cfg, providers(cfg.AI_PROVIDER, cfg.anthropic_client), 1, <<>>)

\* the process has started with some configuration
InitAi ==
    /\ documents = EmptyFcn
    /\ raw_data = EmptyFcn
    /\ summaries = <<>>
    /\ next_doc_id = 1
    /\ last_op = NoOp
    /\ \E p \in ProviderSettings, o \in BOOLEAN, a \in BOOLEAN :
          ai_call = [NoAi EXCEPT !.AI_PROVIDER = p, !.openai_client = o, !.anthropic_client = a]
    /\ IdleExtract /\ IdleFirebase /\ IdleCharts /\ IdleUpload /\ IdleConcurrent /\ IdleLimiter

\* one call of the helper, the providers' APIs behaving as api says
CallAi == \E api \in [Providers -> ApiOutcomes] :
    /\ ~ai_call.called
    /\ \E r \in {call_ai_with_fallback([ai_call EXCEPT !.api = api])} :
          ai_call' = [ai_call EXCEPT !.called = TRUE, !.api = api, !.attempts = r.attempts,
                                     !.status = r.status, !.provider = r.provider]
    /\ UNCHANGED <<documents, raw_data, summaries, next_doc_id, last_op, sheet_in, extract_out,
                   fb_docs, fb_last, fb_issued, chart_rows, dash, up, txn, observed, limiter>>

NextAi == CallAi

SpecAi == InitAi /\ [][NextAi]_vars

\* the other provider
other_provider(p) == IF p = "openai" THEN "anthropic" ELSE "openai"

\* the provider is configured and its call succeeds
succeeds(p) == client_of(ai_call, p) /\ ai_call.api[p] = "ok"

\* C24: for AI_PROVIDER naming one of the two providers, the helper tries the
\* configured provider and then the other, each at most once and only while
\* none has succeeded; it returns the response of the first in that order that
\* is configured and succeeds, and raises 503 exactly when none does.
C24_FallbackOrder ==
    (ai_call.called /\ ai_call.AI_PROVIDER \in Providers) =>
        \E first \in {ai_call.AI_PROVIDER} : \E second \in {other_provider(first)} :
           /\ ai_call.attempts =
                 (IF client_of(ai_call, first) THEN <<first>> ELSE <<>>)
                 \o (IF client_of(ai_call, second) /\ ~succeeds(first) THEN <<second>> ELSE <<>>)
           /\ ai_call.status = 503 <=> ~succeeds(first) /\ ~succeeds(second)
           /\ ai_call.status # 503 =>
                 /\ ai_call.status = 200
                 /\ ai_call.provider = IF succeeds(first) THEN first ELSE second

\* C24 witness: anthropic is the configured provider, its call raises, and the
\* response is the one of openai
C24_Witness ==
    /\ ai_call.called
    /\ ai_call.AI_PROVIDER = "anthropic"
    /\ ai_call.api["anthropic"] = "error"
    /\ ai_call.attempts = <<"anthropic", "openai">>
    /\ ai_call.status = 200
    /\ ai_call.provider = "openai"

-----------------------------------------------------------------------------
(* The period of a confirmation and the period of the rows, checked under Spec *)

\* C25: the period of every monthly_summaries row written by the extraction
\* of a confirmed document is the period that document was confirmed with, so
\* documents confirmed with different periods never write to one
\* (store_id, period) key.
C25_RowPeriodIsDocumentPeriod ==
    \A i \in 1..Len(summaries) :
        \E d \in {summaries[i].document_id} :
            (d \in DOMAIN documents /\ documents[d].status = "confirmed") =>
                summaries[i].period = documents[d].period

-----------------------------------------------------------------------------
(* The period the comparison chart compares against, checked under SpecCharts *)

\* C26: whenever the endpoint returns a comparison chart, the previous period
\* it compares against is another period than the target and an earlier one,
\* whatever target period was requested.
C26_PreviousIsEarlier ==
    (dash.called /\ dash.has_data /\ dash.compare) =>
        /\ dash.previous_period # dash.current_period
        /\ period_number(dash.previous_period) < period_number(dash.current_period)

-----------------------------------------------------------------------------
(* The dashboard of a period with many stores *)

\* the most stores that have a summary in the period
MaxTiendas == 9

\* the store_id of the k-th store
tienda(k) == <<"t","i","e","n","d","a","_", digits[k + 1]>>

\* the net profits the rows of SpecStores hold, with sales of 60
ProfitAmounts == {6, 12}

\* period 12 holds one row for each of the first n stores
InitStores ==
    /\ documents = EmptyFcn
    /\ raw_data = EmptyFcn
    /\ summaries = <<>>
    /\ next_doc_id = 1
    /\ last_op = NoOp
    /\ IdleExtract /\ IdleFirebase /\ IdleUpload /\ IdleConcurrent /\ IdleAi /\ IdleLimiter
    /\ \E n \in 0..MaxTiendas : \E net_profit \in [1..n -> ProfitAmounts] :
          chart_rows = [k \in 1..n |-> summary_row(tienda(k), period_P12, 60, 24, 18, net_profit[k])]
    /\ dash = NoDash

GetStoresDashboard == \E period \in {<<>>, period_P12}, scan \in ScanOrders :
    /\ ~dash.called
    /\ dash' = get_dashboard_charts_data(period, scan)
    /\ UNCHANGED <<documents, raw_data, summaries, next_doc_id, last_op, sheet_in,
                   extract_out, fb_docs, fb_last, fb_issued, chart_rows, up, txn, observed,
                   ai_call, limiter>>

NextStores == GetStoresDashboard

SpecStores == InitStores /\ [][NextStores]_vars

\* C27: total_stores of the summary is the number of stores that have a
\* monthly_summaries row in the target period, for any number of stores.
C27_TotalStoresCountsStores ==
    (dash.called /\ dash.has_data) =>
        dash.total_stores = Cardinality({target_rows[k].store_id : k \in 1..Len(target_rows)})

-----------------------------------------------------------------------------
(* The documents the summaries name, checked under Spec *)

\* C28: in every reachable state the document_id of every monthly_summaries
\* row is the id of an existing document: once delete_document has removed a
\* document, no row carries its id.
C28_SummariesNameDocuments ==
    \A i \in 1..Len(summaries) : summaries[i].document_id \in DOMAIN documents

-----------------------------------------------------------------------------
(* RateLimiter *)

\* RateLimiter(max_requests, window_seconds), scaled from login_limiter's 5
\* requests in 60 seconds
max_requests == 2
window_seconds == 2

\* the calls of is_allowed one behaviour makes
MaxCalls == 4

\* the readings of time.time(): the wall clock, which may be set back
MaxTime == 4

\* the client addresses that call
Identifiers == {"10.0.0.1", "10.0.0.2"}

\* self.requests[identifier] of a defaultdict(list)
requests_of(requests, identifier) ==
    IF identifier \in DOMAIN requests THEN requests[identifier] ELSE <<>>

\* [req_time for req_time in ... if now - req_time < self.window_seconds]
recent(times, now) == SelectSeq(times, LAMBDA req_time : now - req_time < window_seconds)

\* is_allowed(identifier) at time now: the answer and self.requests after it
is_allowed(requests, identifier, now) ==
    Only({IF Len(kept) >= max_requests
          THEN [answer |-> FALSE, requests |-> (identifier :> kept) @@ requests]
          ELSE [answer |-> TRUE, requests |-> (identifier :> Append(kept, now)) @@ requests] :
             kept \in {recent(requests_of(requests, identifier), now)}})

\* login_limiter has been built and asked nothing
InitLimiter ==
    /\ documents = EmptyFcn
    /\ raw_data = EmptyFcn
    /\ summaries = <<>>
    /\ next_doc_id = 1
    /\ last_op = NoOp
    /\ IdleExtract /\ IdleFirebase /\ IdleCharts /\ IdleUpload /\ IdleConcurrent /\ IdleAi
    /\ limiter = [requests |-> <<>>, calls |-> <<>>]

\* `login_limiter.is_allowed(client_ip)` of code_login, the clock reading now
IsAllowed == \E identifier \in Identifiers, now \in 0..MaxTime :
    /\ Len(limiter.calls) < MaxCalls
    /\ \E r \in {is_allowed(limiter.requests, identifier, now)} :
          limiter' = [requests |-> r.requests,
                      calls |-> Append(limiter.calls,
                                       [identifier |-> identifier, now |-> now,
                                        answer |-> r.answer])]
    /\ UNCHANGED <<documents, raw_data, summaries, next_doc_id, last_op, sheet_in, extract_out,
                   fb_docs, fb_last, fb_issued, chart_rows, dash, up, txn, observed, ai_call>>

NextLimiter == IsAllowed

SpecLimiter == InitLimiter /\ [][NextLimiter]_vars

\* the calls of an identifier answered True at a time from start up to, not
\* including, start + window_seconds
allowed_in_window(calls, identifier, start) ==
    {j \in 1..Len(calls) :
        /\ calls[j].identifier = identifier
        /\ calls[j].answer
        /\ start <= calls[j].now /\ calls[j].now < start + window_seconds}

\* C29: for every identifier and every sequence of calls of is_allowed, at
\* most max_requests of the calls answered True have their time in any one
\* interval of window_seconds; a call answered False records no time; and a
\* call for one identifier leaves what the limiter holds for the others, and
\* with it their answers, as it was.
C29_AtMostMaxPerWindow ==
    [][/\ \A identifier \in Identifiers : \A start \in 0..MaxTime :
             Cardinality(allowed_in_window(limiter'.calls, identifier, start)) <= max_requests
       /\ \E call \in {limiter'.calls[Len(limiter'.calls)]} :
             /\ ~call.answer =>
                   \A k \in 1..Len(requests_of(limiter'.requests, call.identifier)) :
                       \E j \in 1..Len(requests_of(limiter.requests, call.identifier)) :
                           limiter'.requests[call.identifier][k] = limiter.requests[call.identifier][j]
             /\ \A other \in Identifiers \ {call.identifier} :
                   requests_of(limiter'.requests, other) = requests_of(limiter.requests, other)]_vars

-----------------------------------------------------------------------------
(* Franchise isolation of the Firebase document router *)

\* the step is a request of get_document, delete_document or
\* reprocess_document for document d by a user of another franchise
foreign_request(d) ==
    /\ fb_last'.op \in {"get", "delete", "reprocess"}
    /\ fb_last'.doc = d
    /\ fb_last'.user # fb_docs[d].franchise_id

\* C30: no request of get_document, delete_document or reprocess_document
\* made by a user of one franchise reads, deletes or changes the stored state,
\* the status included, of a document of another franchise, on the success
\* and on the error paths.
C30_FranchiseIsolation ==
    [][ \A d \in DOMAIN fb_docs :
            foreign_request(d) =>
                /\ fb_last'.result \notin {0, 200}
                /\ d \in DOMAIN fb_docs'
                /\ fb_docs'[d] = fb_docs[d] ]_vars

====
